---- MODULE Spec2Model ----
(***************************************************************************)
(* A model of the nba-game-predictor repository: the two accuracy ledgers  *)
(* (daily_predictor.py, nfl_daily_predictor.py), the prediction stores,    *)
(* the trailing-window feature calculators (ml_model.py, nfl_ml_model.py)  *)
(* and the retrospective backfill (backfill_historical_predictions.py).    *)
(*                                                                         *)
(* Dates are ISO strings 'YYYY-MM-DD' in the source and are compared as    *)
(* strings (fetch_historical_data.py formats them with '%Y-%m-%d'); a      *)
(* fixed-width ISO date orders as the day it names, so a date is modelled  *)
(* as a day number.  JSON null / Python None is Null.                      *)
(***************************************************************************)
EXTENDS Integers, Sequences, FiniteSets, TLC

VARIABLES
    program,           \* which program of the repository this run of the system is
    lastOp,            \* the operation that produced the current state
    lastAdded,         \* number of ledger reconciliations made by that operation
    lastBatch,         \* history variable: the batch that operation predicted
    \* ---- basketball: daily_predictor.py
    today,             \* datetime.now().date()
    nba_predictions,   \* daily_predictions.json: list of prediction records
    nba_stats,         \* prediction_stats.json: the accuracy ledger
    nba_api,           \* completed games the live results source can report
    nba_df,            \* rows of the box-score dataset (one row kept per game)
    counted,           \* history variable: times each stored prediction was counted
    \* ---- football: nfl_daily_predictor.py
    nfl_week,          \* the current week of the season
    nfl_hist_file,     \* nfl_historical_data.json as update_accuracy reads it
    nfl_stats,         \* nfl_prediction_stats.json: the accuracy ledger
    nfl_predictions,   \* nfl_daily_predictions.json
    nfl_rec,           \* history variable: per ledger entry, times it was counted
    \* ---- retrospective backfill and training
    bf_sport,          \* which historical file bf_games is: "nba" or "nfl"
    bf_games,          \* nba_/nfl_historical_data.json: the list of game records
    nfl_model,         \* nfl_model.pkl: the coefficients of the fitted regression
    bf_predictions,    \* nba_/nfl_historical_predictions.json
    train_df,          \* the box-score dataset handed to train, one entry per game
    team_stats,        \* NBAGamePredictor.team_stats (saved in nba_model.pkl)
    games_df,          \* the training rows create_game_features returned
    \* ---- availability adjustments
    game_injuries,     \* the injury entries of the two sides handed to predict
    nfl_features,      \* what create_game_features returned for them
    roster_df,         \* the player rows of one team in the box-score dataset
    strength,          \* what calculate_team_strength_with_injuries returned
    \* ---- the statistics endpoint: api/stats.py
    response,          \* the body do_GET last wrote
    \* ---- the schedule getters
    fetched,           \* the provider's replies and what the getter returned
    prediction,        \* the inputs and the result of one call of predict
    \* ---- the files of one basketball run, step by step
    disk,              \* per persisted file: missing, whole, malformed or truncated
    pc                 \* where generate_todays_predictions stands

vars == <<program, lastOp, lastAdded, lastBatch, today, nba_predictions, nba_stats, nba_api, nba_df,
          counted, nfl_week, nfl_hist_file, nfl_stats,
          nfl_predictions, nfl_rec, bf_sport, bf_games, nfl_model,
          bf_predictions, train_df, team_stats, games_df,
          game_injuries, nfl_features, roster_df, strength, response,
          fetched, prediction, disk, pc>>

availVars == <<game_injuries, nfl_features, roster_df, strength, response,
               fetched, prediction, disk, pc>>

nbaVars == <<today, nba_predictions, nba_stats, nba_api, nba_df, counted>>
nflVars == <<nfl_week, nfl_hist_file, nfl_stats, nfl_predictions, nfl_rec>>
mlVars == <<bf_sport, bf_games, nfl_model, bf_predictions, train_df,
            team_stats, games_df>>

Null == "null"

\* What lastBatch holds after an operation that predicts no batch.  games:
\* the matchups handed to the batch as <<home, away, date or week>>; failed:
\* those for which predicting raised or returned nothing; skipped: the
\* skipped count the operation printed (0 when it prints none).
NoBatch == [games |-> {}, failed |-> {}, skipped |-> 0, replaced |-> 0]

\* None where the value, when there is one, is a record or a number.
NoneRec == [is_none |-> TRUE]
NoScore == 0 - 1

\* ---- no availability adjustment has been computed
AvailIdle ==
    /\ game_injuries = NoneRec
    /\ nfl_features = NoneRec
    /\ roster_df = <<>>
    /\ strength = NoneRec
    /\ response = NoneRec
    /\ fetched = NoneRec
    /\ prediction = NoneRec
    /\ disk = [model |-> "whole", stats |-> "whole", predictions |-> "whole"]
    /\ pc = "idle"

\* ------------------------------------------------------------------------
\* Generic helpers
\* ------------------------------------------------------------------------

Range(s) == {s[i] : i \in 1..Len(s)}

RECURSIVE Concat(_)
\* The concatenation of a sequence of sequences.
Concat(ss) == IF ss = <<>> THEN <<>> ELSE Head(ss) \o Concat(Tail(ss))

RECURSIVE SumOver(_, _)
\* The sum of f[x] over the finite set S.
SumOver(f, S) ==
    IF S = {} THEN 0
    ELSE LET x == CHOOSE y \in S : TRUE IN f[x] + SumOver(f, S \ {x})

RECURSIVE SumSeq(_)
\* The sum of a sequence of integers.
SumSeq(s) == IF s = <<>> THEN 0 ELSE Head(s) + SumSeq(Tail(s))

Abs(x) == IF x < 0 THEN 0 - x ELSE x

RECURSIVE GCD(_, _)
GCD(a, b) == IF b = 0 THEN a ELSE GCD(b, a % b)

\* Python floats that are quotients of integers are modelled as fractions in
\* lowest terms <<numerator, denominator>>, denominator positive, so that two
\* quotients are equal exactly when the numbers are.
Frac(n, d) == LET g == GCD(Abs(n), d) IN <<n \div g, d \div g>>
FracAdd(a, b) == Frac(a[1] * b[2] + b[1] * a[2], a[2] * b[2])
FracSub(a, b) == Frac(a[1] * b[2] - b[1] * a[2], a[2] * b[2])
FracAbs(a) == <<Abs(a[1]), a[2]>>
FracLess(a, b) == a[1] * b[2] < b[1] * a[2]
FracMin(a, b) == IF FracLess(b, a) THEN b ELSE a
FracMax(a, b) == IF FracLess(a, b) THEN b ELSE a

\* ---- the state the backfill and training files are left in
MLIdle ==
    /\ bf_sport = "nba"
    /\ bf_games = <<>>
    /\ nfl_model = NoneRec
    /\ bf_predictions = <<>>
    /\ train_df = <<>>
    /\ team_stats = NoneRec
    /\ games_df = <<>>

\* ------------------------------------------------------------------------
\* BASKETBALL LEDGER  (src/daily_predictor.py)
\* ------------------------------------------------------------------------

MaxDay == 3          \* days the model lets the clock run over
LookBack == 7        \* range(7): the look-back window of update_accuracy

\* The (home, away) pairs of the season's schedule, in the order the schedule
\* source lists them.
NBAMatchups == {<<"BOS", "NYK">>, <<"LAL", "DEN">>}
NBAMatchupOrder == << <<"BOS", "NYK">>, <<"LAL", "DEN">> >>

Days == 1..MaxDay

\* The season's schedule: two games on the first day, one on every later day.
Schedule(d) == IF d = 1 THEN NBAMatchups ELSE {<<"BOS", "NYK">>}

\* How each game of the season ends: the home side wins on odd days.
TrueWinner(d, m) == IF d % 2 = 1 THEN m[1] ELSE m[2]

\* What the classifier answers for a matchup: predict_game is a function of
\* the cached team snapshots, so one matchup gets one answer.
ClassifierPick(m) == IF m = <<"BOS", "NYK">> THEN "BOS" ELSE "DEN"

\* The rows of the box-score dataset once it covers the second day's game;
\* the row kept is the visiting side's (Tm = NYK).
DatasetRows ==
    {[Data |-> 2, Tm |-> "NYK", Opp |-> "BOS",
      Res |-> IF TrueWinner(2, <<"BOS", "NYK">>) = "NYK" THEN "W" ELSE "L"]}

\* A stored prediction is identified by its date and matchup: the store holds
\* at most one prediction per scheduled game of a date.
NBAKeys == Days \X NBAMatchups

KeyOf(pred) == <<pred.date, <<pred.home_team, pred.away_team>> >>

\* load_stats: the ledger a missing file stands for.
DefaultStats ==
    [total_predictions |-> 0, correct_predictions |-> 0, predictions_history |-> <<>>]

\* dates_to_check = [yesterday - i for i in range(7)], most recent first.
dates_to_check(day) == [i \in 1..LookBack |-> (day - 1) - (i - 1)]

\* processed_dates = {entry['date'] for entry in stats['predictions_history']}
processed_dates(stats) ==
    {stats.predictions_history[i].date : i \in 1..Len(stats.predictions_history)}

\* data_fetcher.get_game_results(date_str): the completed games of that date
\* as the live source lists them.
get_game_results(date_str) == {r \in nba_api : r.date = date_str}

\* df[df['Data'].dt.date == check_date_obj]
date_games(check_date) == {g \in nba_df : g.Data = check_date}

\* The inner matching of update_accuracy for one prediction: the live results
\* first, either side listed as home; then the dataset rows, either side as Tm.
ApiMatches(pred, api_results) ==
    {r \in api_results :
        \/ (r.home_team = pred.home_team /\ r.away_team = pred.away_team)
        \/ (r.home_team = pred.away_team /\ r.away_team = pred.home_team)}

DfMatches(pred, rows) ==
    {g \in rows :
        \/ (g.Tm = pred.home_team /\ g.Opp = pred.away_team)
        \/ (g.Tm = pred.away_team /\ g.Opp = pred.home_team)}

actual_winner(pred, date_str) ==
    LET am == ApiMatches(pred, get_game_results(date_str))
        dm == DfMatches(pred, date_games(date_str))
    IN  IF am # {} THEN (CHOOSE r \in am : TRUE).winner
        ELSE IF dm # {}
             THEN LET g == CHOOSE x \in dm : TRUE
                  IN  IF g.Res = "W" THEN g.Tm ELSE g.Opp
             ELSE Null

\* Lines 182-195: count the prediction and append its history entry.  acc
\* carries the ledger and the history variable counted through the run.
\* Variant of RecordResult that puts the new entry in front of the history.
RecordResultInFront(acc, pred, date_str, aw) ==
    [stats |->
        [total_predictions |-> acc.stats.total_predictions + 1,
         correct_predictions |->
            acc.stats.correct_predictions + (IF aw = pred.winner THEN 1 ELSE 0),
         predictions_history |->
            <<[date |-> date_str, predicted |-> pred.winner,
               actual |-> aw, correct |-> (aw = pred.winner)]>>
              \o acc.stats.predictions_history],
     counted |-> [acc.counted EXCEPT ![KeyOf(pred)] = @ + 1],
     added |-> acc.added + 1]

RecordResult(acc, pred, date_str, aw) ==
    [stats |->
        [total_predictions |-> acc.stats.total_predictions + 1,
         correct_predictions |->
            acc.stats.correct_predictions + (IF aw = pred.winner THEN 1 ELSE 0),
         predictions_history |->
            Append(acc.stats.predictions_history,
                   [date |-> date_str, predicted |-> pred.winner,
                    actual |-> aw, correct |-> (aw = pred.winner)])],
     counted |-> [acc.counted EXCEPT ![KeyOf(pred)] = @ + 1],
     added |-> acc.added + 1]

RECURSIVE ReconcilePredictions(_, _, _)
\* for pred in date_predictions: ...
ReconcilePredictions(acc, preds, date_str) ==
    IF preds = <<>> THEN acc
    ELSE LET pred == Head(preds)
             aw == actual_winner(pred, date_str)
         IN  ReconcilePredictions(
                 IF aw # Null THEN RecordResult(acc, pred, date_str, aw) ELSE acc,
                 Tail(preds), date_str)

\* Variant of SkipsDate in which no date is ever taken as processed.
SkipsDateNever(date_str, processed) == FALSE

\* if date_str in processed_dates: continue
SkipsDate(date_str, processed) == date_str \in processed

RECURSIVE ReconcileDates(_, _, _, _)
\* for check_date in dates_to_check: ...   (processed is computed once,
\* before the loop, from the ledger as loaded)
ReconcileDates(acc, dates, processed, all_predictions) ==
    IF dates = <<>> THEN acc
    ELSE LET date_str == Head(dates)
             date_predictions ==
                 SelectSeq(all_predictions, LAMBDA p : p.date = date_str)
         IN  ReconcileDates(
                 IF SkipsDate(date_str, processed) THEN acc
                 ELSE ReconcilePredictions(acc, date_predictions, date_str),
                 Tail(dates), processed, all_predictions)

\* Whether a run reaches the live-results call of line 145 at all.
ReachesFetch(stats, day) ==
    \E i \in 1..LookBack : dates_to_check(day)[i] \notin processed_dates(stats)

\* update_accuracy(df, predictor) on the given ledger, store and day, when no
\* call raises.
update_accuracy(stats, cnt, all_predictions, day) ==
    ReconcileDates([stats |-> stats, counted |-> cnt, added |-> 0],
                   dates_to_check(day), processed_dates(stats), all_predictions)


\* The merge of generate_todays_predictions (lines 292-313): keep today's and
\* yesterday's predictions, drop today's, add the new ones, sort by date with
\* the most recent first (list.sort is stable).
SortByDateDesc(preds) ==
    Concat([i \in 1..MaxDay |->
              SelectSeq(preds, LAMBDA p : p.date = MaxDay + 1 - i)])

\* Variant of MergePredictions that adds the run's predictions to those the
\* store already holds for the day.
MergePredictionsKeeping(existing, predictions, day) ==
    LET kept == SelectSeq(existing, LAMBDA p : p.date \in {day, day - 1})
    IN  SortByDateDesc(kept \o predictions)

\* Variant of MergePredictions that keeps the predictions of every earlier
\* day.
MergePredictionsKeepingAll(existing, predictions, day) ==
    LET old == SelectSeq(existing, LAMBDA p : p.date # day)
    IN  SortByDateDesc(old \o predictions)

MergePredictions(existing, predictions, day) ==
    LET kept == SelectSeq(existing, LAMBDA p : p.date \in {day, day - 1})
        old == SelectSeq(kept, LAMBDA p : p.date # day)
    IN  SortByDateDesc(old \o predictions)

\* Variant of TodaysPredictions in which the first prediction that raises
\* ends the loop.
TodaysPredictionsAborting(today_games, raised, day) ==
    LET listed == SelectSeq(NBAMatchupOrder, LAMBDA m : m \in today_games)
        stop == {i \in 1..Len(listed) : listed[i] \in raised}
        n == IF stop = {} THEN Len(listed)
             ELSE (CHOOSE i \in stop : \A j \in stop : i <= j) - 1
    IN  [i \in 1..n |->
            [home_team |-> listed[i][1], away_team |-> listed[i][2],
             winner |-> ClassifierPick(listed[i]), date |-> day]]

\* The prediction loop of generate_todays_predictions (lines 243-290): one
\* record per game whose prediction did not raise.  today_games is the set
\* of matchups the schedule source returned, raised the set of those whose
\* prediction raised.
TodaysPredictions(today_games, raised, day) ==
    LET ok == SelectSeq(NBAMatchupOrder,
                        LAMBDA m : m \in today_games /\ m \notin raised)
    IN  [i \in 1..Len(ok) |->
            [home_team |-> ok[i][1], away_team |-> ok[i][2],
             winner |-> ClassifierPick(ok[i]), date |-> day]]

\* ---- the state the other sport's files are left in
NFLIdle ==
    /\ nfl_week = 1
    /\ nfl_hist_file = <<>>
    /\ nfl_stats = DefaultStats
    /\ nfl_predictions = <<>>
    /\ nfl_rec = <<>>

InitNBA ==
    /\ program = "daily_predictor"
    /\ AvailIdle
    /\ lastOp = "init"
    /\ lastAdded = 0
    /\ lastBatch = NoBatch
    /\ today = 1
    /\ nba_predictions = <<>>
    /\ nba_stats = DefaultStats
    /\ nba_api = {}
    /\ nba_df = {}
    /\ counted = [k \in NBAKeys |-> 0]
    /\ NFLIdle
    /\ MLIdle

\* The clock passes midnight.
NextDay ==
    /\ today < MaxDay
    /\ today' = today + 1
    /\ lastOp' = "env"
    /\ lastAdded' = 0
    /\ UNCHANGED program
    /\ UNCHANGED availVars
    /\ lastBatch' = NoBatch
    /\ UNCHANGED <<nba_predictions, nba_stats, nba_api, nba_df, counted>>
    /\ UNCHANGED nflVars
    /\ UNCHANGED mlVars

SameGame(h1, a1, h2, a2) == {h1, a1} = {h2, a2}

\* A game of an earlier day has ended and the live source lists it, with
\* either side as home.
LiveResultArrives ==
    /\ \E d \in 1..(today - 1), swap \in BOOLEAN :
        \E m \in Schedule(d) :
          /\ \A r \in nba_api :
                ~(r.date = d /\ SameGame(r.home_team, r.away_team, m[1], m[2]))
          /\ nba_api' = nba_api \cup
                {[date |-> d,
                  home_team |-> IF swap THEN m[2] ELSE m[1],
                  away_team |-> IF swap THEN m[1] ELSE m[2],
                  winner |-> TrueWinner(d, m)]}
    /\ lastOp' = "env"
    /\ lastAdded' = 0
    /\ UNCHANGED program
    /\ UNCHANGED availVars
    /\ lastBatch' = NoBatch
    /\ UNCHANGED <<today, nba_predictions, nba_stats, nba_df, counted>>
    /\ UNCHANGED nflVars
    /\ UNCHANGED mlVars

\* A new release of the dataset carries the rows of a finished game
\* (load_data downloads the dataset anew on every run).
DatasetRowArrives ==
    /\ today > 2
    /\ nba_df = {}
    /\ nba_df' = DatasetRows
    /\ lastOp' = "env"
    /\ lastAdded' = 0
    /\ UNCHANGED program
    /\ UNCHANGED availVars
    /\ lastBatch' = NoBatch
    /\ UNCHANGED <<today, nba_predictions, nba_stats, nba_api, counted>>
    /\ UNCHANGED nflVars
    /\ UNCHANGED mlVars

\* update_accuracy runs to its save_stats (line 198).
UpdateAccuracy ==
    /\ LET acc == update_accuracy(nba_stats, counted, nba_predictions, today)
       IN  /\ nba_stats' = acc.stats
           /\ counted' = acc.counted
           /\ lastAdded' = acc.added
           /\ UNCHANGED program
           /\ UNCHANGED availVars
           /\ lastBatch' = NoBatch
    /\ lastOp' = "update_accuracy"
    /\ UNCHANGED <<today, nba_predictions, nba_api, nba_df>>
    /\ UNCHANGED nflVars
    /\ UNCHANGED mlVars

\* update_accuracy raises at the live-results call of line 145, before
\* save_stats: the ledger file keeps its content.
UpdateAccuracyRaises ==
    /\ ReachesFetch(nba_stats, today)
    /\ lastOp' = "update_accuracy_raised"
    /\ lastAdded' = 0
    /\ UNCHANGED program
    /\ UNCHANGED availVars
    /\ lastBatch' = NoBatch
    /\ UNCHANGED nbaVars
    /\ UNCHANGED nflVars
    /\ UNCHANGED mlVars

\* generate_todays_predictions: update_accuracy inside try/except, then the
\* schedule, the per-game predictions and the merge into the store.  An empty
\* schedule returns before the store is touched (lines 235-237).
GenerateTodaysPredictions ==
    \E raises \in BOOLEAN, today_games \in SUBSET Schedule(today) :
    \E raised \in SUBSET today_games :
      LET ran == ~(raises /\ ReachesFetch(nba_stats, today))
          acc == IF ran
                 THEN update_accuracy(nba_stats, counted, nba_predictions, today)
                 ELSE [stats |-> nba_stats, counted |-> counted, added |-> 0]
          predictions == TodaysPredictions(today_games, raised, today)
      IN  /\ nba_stats' = acc.stats
          /\ counted' = acc.counted
          /\ lastAdded' = acc.added
          /\ UNCHANGED program
          /\ UNCHANGED availVars
          /\ lastBatch' = [games |-> {<<m[1], m[2], today>> : m \in today_games},
                            failed |-> {<<m[1], m[2], today>> : m \in raised},
                            skipped |-> 0,
                            replaced |-> IF today_games = {} THEN 0
                                         ELSE Len(SelectSeq(nba_predictions,
                                                  LAMBDA p : p.date = today))]
          /\ nba_predictions' =
                IF today_games = {} THEN nba_predictions
                ELSE MergePredictions(nba_predictions, predictions, today)
          /\ lastOp' = "generate_todays_predictions"
          /\ UNCHANGED <<today, nba_api, nba_df>>
          /\ UNCHANGED nflVars
          /\ UNCHANGED mlVars

NextNBA ==
    \/ NextDay
    \/ LiveResultArrives
    \/ DatasetRowArrives
    \/ UpdateAccuracy
    \/ UpdateAccuracyRaises
    \/ GenerateTodaysPredictions

SpecNBA == InitNBA /\ [][NextNBA]_vars


\* ------------------------------------------------------------------------
\* FOOTBALL LEDGER  (src/nfl_daily_predictor.py)
\* ------------------------------------------------------------------------

MaxWeek == 3         \* weeks in which the two tracked teams meet
MaxHist == 2         \* entries of the ledger file at the start

NFLWeeks == 1..MaxWeek

\* The meeting of the two teams in week w as the provider lists it, and how
\* it ends: the home side changes from week to week, and KC wins every
\* third meeting.
NFLHome(w) == IF w % 2 = 1 THEN "KC" ELSE "DEN"
NFLAway(w) == IF w % 2 = 1 THEN "DEN" ELSE "KC"
NFLWinner(w) == IF w % 3 = 1 THEN "KC" ELSE "DEN"

\* A record of nfl_historical_data.json as fetch_nfl_historical_data writes
\* it at a time when the weeks before asof are over.
HistoricalGame(w, asof) ==
    [home_team |-> NFLHome(w), away_team |-> NFLAway(w), week |-> w, date |-> w,
     status |-> IF w < asof THEN "completed" ELSE "scheduled",
     winner |-> IF w < asof THEN NFLWinner(w) ELSE Null]

\* The file written by a fetch made in week asof: every game from the start
\* of the year to that day, in date order.
HistoricalFile(asof) ==
    [w \in 1..(IF asof > MaxWeek THEN MaxWeek ELSE asof) |-> HistoricalGame(w, asof)]

\* NFLDataFetcher.get_game_results(week): the completed games of that week.
nfl_get_game_results(week, now) ==
    IF week \in NFLWeeks /\ week < now
    THEN << [home_team |-> NFLHome(week), away_team |-> NFLAway(week),
             winner |-> NFLWinner(week), date |-> week, week |-> week] >>
    ELSE <<>>

\* Variant of IsPending that takes every entry as not yet processed.
IsPendingAlways(pred) == TRUE

\* 'actual' not in pred or pred.get('actual') is None
IsPending(pred) == pred.actual = Null

\* Lines 111-112: the match of the historical pass.
HistoricalMatch(pred, result) ==
    /\ pred.home_team = result.home_team
    /\ pred.away_team = result.away_team

\* Lines 139-141: the match of the API pass.
ApiMatch(pred, result) ==
    /\ pred.home_team = result.home_team
    /\ pred.away_team = result.away_team
    /\ pred.week = result.week

\* The inner loop over predictions_history: the index of the first entry
\* that matches and is pending, 0 when there is none.
FirstPending(history, result, useWeek) ==
    LET idx == {i \in 1..Len(history) :
                   /\ IF useWeek THEN ApiMatch(history[i], result)
                                 ELSE HistoricalMatch(history[i], result)
                   /\ IsPending(history[i])}
    IN  IF idx = {} THEN 0 ELSE CHOOSE i \in idx : \A j \in idx : i <= j

\* Variant of ApplyResult that counts only the entries predicted right.
ApplyResultCountingHits(acc, result, useWeek) ==
    LET h == acc.stats.predictions_history
        i == FirstPending(h, result, useWeek)
        correct == h[i].predicted = result.winner
    IN  IF i = 0 THEN acc
        ELSE [stats |->
                [total_predictions |->
                    acc.stats.total_predictions + (IF correct THEN 1 ELSE 0),
                 correct_predictions |->
                    acc.stats.correct_predictions + (IF correct THEN 1 ELSE 0),
                 predictions_history |->
                    [h EXCEPT ![i] = [@ EXCEPT !.actual = result.winner,
                                               !.correct = correct]]],
              rec |-> [acc.rec EXCEPT ![i] = @ + 1],
              added |-> acc.added + 1]

\* Lines 118-125 and 147-154: set actual and correct, count the entry.
ApplyResult(acc, result, useWeek) ==
    LET h == acc.stats.predictions_history
        i == FirstPending(h, result, useWeek)
        correct == h[i].predicted = result.winner
    IN  IF i = 0 THEN acc
        ELSE [stats |->
                [total_predictions |-> acc.stats.total_predictions + 1,
                 correct_predictions |->
                    acc.stats.correct_predictions + (IF correct THEN 1 ELSE 0),
                 predictions_history |->
                    [h EXCEPT ![i] = [@ EXCEPT !.actual = result.winner,
                                               !.correct = correct]]],
              rec |-> [acc.rec EXCEPT ![i] = @ + 1],
              added |-> acc.added + 1]

RECURSIVE ApplyResults(_, _, _)
\* for result in results: ...
ApplyResults(acc, results, useWeek) ==
    IF results = <<>> THEN acc
    ELSE ApplyResults(ApplyResult(acc, Head(results), useWeek), Tail(results), useWeek)

\* historical_results = [g for g in historical_data
\*                       if g.get('status') == 'completed' and g.get('winner')]
historical_results(file) ==
    SelectSeq(file, LAMBDA g : g.status = "completed" /\ g.winner # Null)

\* update_accuracy(df, predictor, data_fetcher): the historical pass, then
\* the API pass for last week when the provider answers (api_up).
nfl_update_accuracy(stats, rec, file, week, api_up) ==
    LET a0 == [stats |-> stats, rec |-> rec, added |-> 0]
        a1 == ApplyResults(a0, historical_results(file), FALSE)
        week_num == week - 1
    IN  IF api_up /\ week_num > 0
        THEN ApplyResults(a1, nfl_get_game_results(week_num, week), TRUE)
        ELSE a1

\* The pending entries a ledger file may hold for the two teams: either side
\* as home (the fallback schedule of get_week_games draws the sides at
\* random), the home side predicted.  The file lists them in week order,
\* one entry for a week's meeting.
PendingEntries ==
    {[home_team |-> t[1], away_team |-> t[2], week |-> w, predicted |-> t[1],
      actual |-> Null, correct |-> Null] :
        t \in {<<"KC", "DEN">>, <<"DEN", "KC">>}, w \in NFLWeeks}

RECURSIVE SeqsUpTo(_, _)
\* The sequences over S of length at most n.
SeqsUpTo(S, n) ==
    IF n = 0 THEN {<<>>}
    ELSE LET shorter == SeqsUpTo(S, n - 1)
         IN  shorter \cup {Append(q, x) : q \in shorter, x \in S}

\* ---- the state the other sport's files are left in
NBAIdle ==
    /\ today = 1
    /\ nba_predictions = <<>>
    /\ nba_stats = DefaultStats
    /\ nba_api = {}
    /\ nba_df = {}
    /\ counted = [k \in NBAKeys |-> 0]

InitNFL ==
    /\ program = "nfl_daily_predictor"
    /\ AvailIdle
    /\ lastOp = "init"
    /\ lastAdded = 0
    /\ lastBatch = NoBatch
    /\ nfl_week = 1
    /\ nfl_hist_file = <<>>
    /\ \E h \in SeqsUpTo(PendingEntries, MaxHist) :
          /\ \A i \in 1..Len(h), j \in 1..Len(h) : i < j => h[i].week < h[j].week
          /\ nfl_stats = [total_predictions |-> 0, correct_predictions |-> 0,
                          predictions_history |-> h]
          /\ nfl_rec = [i \in 1..Len(h) |-> 0]
    /\ nfl_predictions = <<>>
    /\ NBAIdle
    /\ MLIdle

\* A week of the season passes.
NextWeek ==
    /\ nfl_week <= MaxWeek
    /\ nfl_week' = nfl_week + 1
    /\ lastOp' = "env"
    /\ lastAdded' = 0
    /\ UNCHANGED program
    /\ UNCHANGED availVars
    /\ lastBatch' = NoBatch
    /\ UNCHANGED <<nfl_hist_file, nfl_stats, nfl_predictions, nfl_rec>>
    /\ UNCHANGED nbaVars
    /\ UNCHANGED mlVars

\* fetch_historical_data.py is run and rewrites nfl_historical_data.json.
FetchHistorical ==
    /\ nfl_hist_file' = HistoricalFile(nfl_week)
    /\ lastOp' = "env"
    /\ lastAdded' = 0
    /\ UNCHANGED program
    /\ UNCHANGED availVars
    /\ lastBatch' = NoBatch
    /\ UNCHANGED <<nfl_week, nfl_stats, nfl_predictions, nfl_rec>>
    /\ UNCHANGED nbaVars
    /\ UNCHANGED mlVars

\* update_accuracy runs to its save_stats (line 158).
NFLUpdateAccuracy ==
    /\ \E api_up \in BOOLEAN :
         LET acc == nfl_update_accuracy(nfl_stats, nfl_rec, nfl_hist_file,
                                        nfl_week, api_up)
         IN  /\ nfl_stats' = acc.stats
             /\ nfl_rec' = acc.rec
             /\ lastAdded' = acc.added
             /\ UNCHANGED program
             /\ UNCHANGED availVars
             /\ lastBatch' = NoBatch
    /\ lastOp' = "nfl_update_accuracy"
    /\ UNCHANGED <<nfl_week, nfl_hist_file, nfl_predictions>>
    /\ UNCHANGED nbaVars
    /\ UNCHANGED mlVars

\* The merge of generate_week_predictions (lines 236-252): drop the current
\* week's predictions, add the new ones, sort by (season, week) with the most
\* recent first (list.sort is stable; the season is 2025 throughout).
MergeWeekPredictions(existing, predictions, current_week) ==
    LET old == SelectSeq(existing, LAMBDA p : p.week # current_week)
        all == old \o predictions
    IN  Concat([i \in 1..MaxWeek |->
                  SelectSeq(all, LAMBDA p : p.week = MaxWeek + 1 - i)])

\* The games of week w in the order the provider lists them: the meeting of
\* the two tracked teams and, in the first week, a second game.
WeekGames(w) ==
    IF w = 1 THEN << <<NFLHome(w), NFLAway(w)>>, <<"BUF", "MIA">> >>
    ELSE << <<NFLHome(w), NFLAway(w)>> >>

\* The prediction loop of generate_week_predictions (lines 204-234): one
\* record per game of the schedule for which predict returned a prediction
\* and nothing raised.
WeekPredictions(week_games, failed, week) ==
    LET ok == SelectSeq(WeekGames(week),
                        LAMBDA m : m \in week_games /\ m \notin failed)
    IN  [i \in 1..Len(ok) |->
            [home_team |-> ok[i][1], away_team |-> ok[i][2],
             week |-> week, winner |-> ok[i][1]]]

\* generate_week_predictions: update_accuracy, then the week's games and one
\* prediction per game for which predict returned one; the predictions go to
\* the predictions file (lines 236-252) and nowhere else.  week_games: the
\* games of the model that the schedule held (the schedule itself is never
\* empty: get_week_games falls back to generated games); failed: those for
\* which predict returned None or raised.
GenerateWeekPredictions ==
    /\ nfl_week \in NFLWeeks
    /\ \E api_up \in BOOLEAN, week_games \in SUBSET Range(WeekGames(nfl_week)) :
       \E failed \in SUBSET week_games :
         LET acc == nfl_update_accuracy(nfl_stats, nfl_rec, nfl_hist_file,
                                        nfl_week, api_up)
             predictions == WeekPredictions(week_games, failed, nfl_week)
         IN  /\ nfl_stats' = acc.stats
             /\ nfl_rec' = acc.rec
             /\ lastAdded' = acc.added
             /\ UNCHANGED program
             /\ UNCHANGED availVars
             /\ lastBatch' =
                    [games |-> {<<m[1], m[2], nfl_week>> : m \in week_games},
                     failed |-> {<<m[1], m[2], nfl_week>> : m \in failed},
                     skipped |-> 0,
                     replaced |-> Len(SelectSeq(nfl_predictions,
                                          LAMBDA p : p.week = nfl_week))]
             /\ nfl_predictions' =
                    MergeWeekPredictions(nfl_predictions, predictions, nfl_week)
    /\ lastOp' = "generate_week_predictions"
    /\ UNCHANGED <<nfl_week, nfl_hist_file>>
    /\ UNCHANGED nbaVars
    /\ UNCHANGED mlVars

NextNFL ==
    \/ NextWeek
    \/ FetchHistorical
    \/ NFLUpdateAccuracy
    \/ GenerateWeekPredictions

SpecNFL == InitNFL /\ [][NextNFL]_vars


\* ------------------------------------------------------------------------
\* RETROSPECTIVE BACKFILL  (src/backfill_historical_predictions.py)
\* ------------------------------------------------------------------------

MaxGames == 3        \* records the historical file grows to

NBA_TEAMS ==
    {"ATL", "BOS", "BKN", "CHA", "CHI", "CLE", "DAL", "DEN", "DET", "GS", "GSW",
     "HOU", "IND", "LAC", "LAL", "MEM", "MIA", "MIL", "MIN", "NO", "NOP", "NY",
     "NYK", "OKC", "ORL", "PHI", "PHX", "POR", "SAC", "SA", "SAS", "SEA", "TOR",
     "UTAH", "WAS", "WSH"}

NFL_TEAMS ==
    {"ARI", "ATL", "BAL", "BUF", "CAR", "CHI", "CIN", "CLE", "DAL", "DEN", "DET",
     "GB", "HOU", "IND", "JAX", "KC", "LV", "LAC", "LAR", "MIA", "MIN", "NE", "NO",
     "NYG", "NYJ", "PHI", "PIT", "SF", "SEA", "TB", "TEN", "WAS"}

\* The exhibition game the provider lists once a season, between sides that
\* are not league teams.
Exhibition(sport) == IF sport = "nba" THEN <<"EAST", "WEST">> ELSE <<"AFC", "NFC">>

\* The matchups and final scores the provider may report, per sport.
BFMatchups(sport) ==
    (IF sport = "nba" THEN {<<"BOS", "NYK">>, <<"LAL", "BOS">>}
     ELSE {<<"KC", "DEN">>, <<"BUF", "KC">>}) \cup {Exhibition(sport)}

\* A game of the file as lastBatch names it.
GameKey(g) == <<g.home_team, g.away_team, g.date>>

\* The batch a heuristic backfill predicted: the games with a side outside
\* TEAMS are passed over (continue) and no skipped count is kept.
heuristic_batch(games, TEAMS) ==
    [games |-> {GameKey(games[i]) : i \in 1..Len(games)},
     failed |-> {GameKey(games[i]) : i \in
                    {j \in 1..Len(games) : games[j].home_team \notin TEAMS
                                           \/ games[j].away_team \notin TEAMS}},
     skipped |-> 0, replaced |-> 0]

FinalScores(sport) ==
    IF sport = "nba" THEN {<<104, 98>>, <<98, 104>>} ELSE {<<24, 20>>, <<20, 24>>}

\* One record of the historical file as fetch_nba_historical_data and
\* fetch_nfl_historical_data build it; sc is <<>> for a game not yet played.
HistoricalRecord(sport, d, m, sc) ==
    [home_team |-> m[1], away_team |-> m[2], date |-> d,
     week |-> IF sport = "nfl" THEN d ELSE 0,
     status |-> IF sc = <<>> THEN "scheduled" ELSE "completed",
     home_score |-> IF sc = <<>> THEN NoScore ELSE sc[1],
     away_score |-> IF sc = <<>> THEN NoScore ELSE sc[2],
     winner |-> IF sc = <<>> THEN Null
                ELSE IF sc[1] > sc[2] THEN m[1] ELSE m[2]]

\* completed = [g for g in games if g.get('status') == 'completed' and g.get('winner')]
completed_games(games) ==
    SelectSeq(games, LAMBDA g : g.status = "completed" /\ g.winner # Null)

\* Variant of StopsAt that lets the game's own date through.
StopsAfter(d, game_date) == d > game_date

\* if d >= game_date: break
StopsAt(d, game_date) == d >= game_date

\* The games the loop over dates_sorted visits before it breaks: dates are
\* taken in ascending order, so a game is visited when no date up to its own
\* stops the loop.
VisitedGames(completed, game_date) ==
    LET dates_sorted == {completed[i].date : i \in 1..Len(completed)}
    IN  SelectSeq(completed,
                  LAMBDA gm : \A d \in dates_sorted :
                                  d <= gm.date => ~StopsAt(d, game_date))

team_games(used, t) ==
    SelectSeq(used, LAMBDA gm : t \in {gm.home_team, gm.away_team})

\* Variant of team_wins that counts the games a team hosted.
team_wins_hosted(used, t) == Len(SelectSeq(used, LAMBDA gm : gm.home_team = t))

team_wins(used, t) == Len(SelectSeq(used, LAMBDA gm : gm.winner = t))

team_pts(used, t) ==
    LET tg == team_games(used, t)
    IN  [i \in 1..Len(tg) |->
            IF t = tg[i].home_team THEN tg[i].home_score ELSE tg[i].away_score]

\* Lines 41-72 and 139-171: the prediction of one game of the file from the
\* completed games.  default_avg is 100 for basketball and 22 for football.
HeuristicPrediction(g, completed, default_avg) ==
    LET home == g.home_team
        away == g.away_team
        used == VisitedGames(completed, g.date)
        wr(t) == IF Len(team_games(used, t)) # 0
                 THEN Frac(team_wins(used, t), Len(team_games(used, t)))
                 ELSE <<1, 2>>
        avg(t) == IF team_pts(used, t) # <<>>
                  THEN Frac(SumSeq(team_pts(used, t)), Len(team_pts(used, t)))
                  ELSE <<default_avg, 1>>
        differ == wr(home) # wr(away)
        winner == IF differ
                  THEN (IF FracLess(wr(away), wr(home)) THEN home ELSE away)
                  ELSE (IF ~FracLess(avg(home), avg(away)) THEN home ELSE away)
        raw == IF differ
               THEN FracAdd(<<1, 2>>, FracAbs(FracSub(wr(home), wr(away))))
               ELSE <<11, 20>>
        conf == FracMin(<<23, 25>>, FracMax(<<13, 25>>, raw))
        rest == FracSub(<<1, 1>>, conf)
    IN  [home_team |-> home, away_team |-> away, date |-> g.date, week |-> g.week,
         winner |-> winner, confidence |-> conf,
         home_win_prob |-> IF winner = home THEN conf ELSE rest,
         away_win_prob |-> IF winner = home THEN rest ELSE conf]

\* _nba_heuristic_predictions(games); the basketball record has no week key,
\* which is kept here as week 0.
nba_heuristic_predictions(games) ==
    LET valid == SelectSeq(games, LAMBDA g : g.home_team \in NBA_TEAMS
                                             /\ g.away_team \in NBA_TEAMS)
    IN  [i \in 1..Len(valid) |->
            HeuristicPrediction(valid[i], completed_games(games), 100)]

\* _nfl_heuristic_predictions(games)
nfl_heuristic_predictions(games) ==
    LET valid == SelectSeq(games, LAMBDA g : g.home_team \in NFL_TEAMS
                                             /\ g.away_team \in NFL_TEAMS)
    IN  [i \in 1..Len(valid) |->
            HeuristicPrediction(valid[i], completed_games(games), 22)]

RecentGames == 5     \* team_games.tail(5)

\* The last n elements of a sequence: DataFrame.tail(n).
LastN(s, n) == IF Len(s) <= n THEN s ELSE SubSeq(s, Len(s) - n + 1, Len(s))

\* sort_values('date'): the rows in date order, rows of one date in the
\* order they had.
SortByDate(rows) ==
    Concat([d \in 1..MaxDay |-> SelectSeq(rows, LAMBDA g : g.date = d)])

\* completed = [g for g in games if g.get('status') == 'completed'
\*              and g.get('home_score') is not None]
nfl_completed(games) ==
    SelectSeq(games, LAMBDA g : g.status = "completed" /\ g.home_score # NoScore)

\* NFLGamePredictor.calculate_team_features(team_abbr, df): None for a team
\* with no game in the frame.
nfl_calculate_team_features(team_abbr, df) ==
    LET tg == SelectSeq(df, LAMBDA g : g.home_team = team_abbr
                                       \/ g.away_team = team_abbr)
        recent_games == LastN(tg, RecentGames)
        games_count == Len(recent_games)
        wins == Len(SelectSeq(recent_games, LAMBDA g : g.winner = team_abbr))
        points_for == SumSeq([i \in 1..games_count |->
                        IF recent_games[i].home_team = team_abbr
                        THEN recent_games[i].home_score
                        ELSE recent_games[i].away_score])
        points_against == SumSeq([i \in 1..games_count |->
                        IF recent_games[i].home_team = team_abbr
                        THEN recent_games[i].away_score
                        ELSE recent_games[i].home_score])
        season_wins == Len(SelectSeq(tg, LAMBDA g : g.winner = team_abbr))
    IN  IF Len(tg) = 0 THEN NoneRec
        ELSE [win_rate |-> Frac(wins, games_count),
              avg_points_for |-> Frac(points_for, games_count),
              avg_points_against |-> Frac(points_against, games_count),
              point_differential |-> FracSub(Frac(points_for, games_count),
                                             Frac(points_against, games_count)),
              season_win_rate |-> Frac(season_wins, Len(tg)),
              recent_form |-> Frac(wins, games_count)]

\* key_positions = ['QB', 'RB', 'WR', 'OL', 'TE']
key_positions == {"QB", "RB", "WR", "OL", "TE"}

\* Variant of nfl_injury_factor that counts every entry of the report.
nfl_injury_factor_all(injuries) ==
    FracMax(<<7, 10>>, FracSub(<<1, 1>>, Frac(Len(injuries), 20)))

\* max(0.7, 1.0 - (key_injuries * 0.05)) over the injury entries of one team
\* (lines 162-167).
nfl_injury_factor(injuries) ==
    LET key_injuries == Len(SelectSeq(injuries,
                                      LAMBDA inj : inj.position \in key_positions))
    IN  FracMax(<<7, 10>>, FracSub(<<1, 1>>, Frac(key_injuries, 20)))

\* NFLGamePredictor.create_game_features(home, away, df, injury_data): None
\* when either side has no features.  The venue flag is a lookup on the home
\* team (outdoor for the home teams here); the injury factors are 1.0 when
\* injury_data is None, else computed from the two teams' entries.
nfl_create_game_features(home_team, away_team, df, injury_data) ==
    LET home_features == nfl_calculate_team_features(home_team, df)
        away_features == nfl_calculate_team_features(away_team, df)
    IN  IF home_features = NoneRec \/ away_features = NoneRec THEN NoneRec
        ELSE [home |-> home_features, away |-> away_features,
              venue_indoor |-> 0,
              home_injury_factor |->
                  IF injury_data = NoneRec THEN <<1, 1>>
                  ELSE nfl_injury_factor(injury_data.home),
              away_injury_factor |->
                  IF injury_data = NoneRec THEN <<1, 1>>
                  ELSE nfl_injury_factor(injury_data.away)]

\* np.array(features) (lines 170-189): the fifteen entries in order.
nfl_feature_array(f) ==
    << f.home.win_rate, f.home.avg_points_for, f.home.avg_points_against,
       f.home.point_differential, f.home.season_win_rate, f.home.recent_form,
       f.away.win_rate, f.away.avg_points_for, f.away.avg_points_against,
       f.away.point_differential, f.away.season_win_rate, f.away.recent_form,
       <<f.venue_indoor, 1>>, f.home_injury_factor, f.away_injury_factor >>

\* The fitted regressions nfl_model.pkl may hold: the weight put on the
\* difference of the two point differentials and on the difference of the
\* two season win rates (the other weights and the intercept zero).
LoadedModels == {[w_pd |-> 1, w_wr |-> 0], [w_pd |-> 0, w_wr |-> 15]}

\* self.model.predict(features): the linear form of the loaded regression.
model_predict(model, f) ==
    LET pd == FracSub(f.home.point_differential, f.away.point_differential)
        wr == FracSub(f.home.season_win_rate, f.away.season_win_rate)
    IN  FracAdd(Frac(model.w_pd * pd[1], pd[2]), Frac(model.w_wr * wr[1], wr[2]))

\* Variant of calibrate without the cap on the confidence.
calibrate_uncapped(home_team, away_team, point_diff) ==
    LET half == <<1, 2>>
        by60 == Frac(Abs(point_diff[1]), 60 * point_diff[2])
    IN  [winner |-> IF point_diff[1] > 0 THEN home_team ELSE away_team,
         confidence |-> FracAdd(half, Frac(Abs(point_diff[1]), 30 * point_diff[2])),
         home_win_prob |-> IF point_diff[1] > 0 THEN FracAdd(half, by60)
                           ELSE FracSub(half, by60),
         away_win_prob |-> IF point_diff[1] > 0 THEN FracSub(half, by60)
                           ELSE FracAdd(half, by60),
         point_differential |-> point_diff]

\* Lines 243-264 of predict: the winner by the sign of the predicted
\* differential, the confidence min(0.95, 0.5 + |diff| / 30) and the two
\* win probabilities 0.5 +- |diff| / 60; the estimated scores are further
\* functions of point_diff.
calibrate(home_team, away_team, point_diff) ==
    LET half == <<1, 2>>
        by60 == Frac(Abs(point_diff[1]), 60 * point_diff[2])
    IN  [winner |-> IF point_diff[1] > 0 THEN home_team ELSE away_team,
         confidence |->
            FracMin(<<19, 20>>,
                    FracAdd(half, Frac(Abs(point_diff[1]), 30 * point_diff[2]))),
         home_win_prob |-> IF point_diff[1] > 0 THEN FracAdd(half, by60)
                           ELSE FracSub(half, by60),
         away_win_prob |-> IF point_diff[1] > 0 THEN FracSub(half, by60)
                           ELSE FracAdd(half, by60),
         point_differential |-> point_diff]

\* NFLGamePredictor.predict(home, away, df, injury_data): None without
\* features, else the calibrated prediction of the regression's output.
nfl_predict(home_team, away_team, df, injury_data, model) ==
    LET features == nfl_create_game_features(home_team, away_team, df, injury_data)
    IN  IF features = NoneRec THEN NoneRec
        ELSE calibrate(home_team, away_team, model_predict(model, features))

\* df_before = df_all[df_all['date'] < game_date] if game_date else df_all
\* if len(df_before) == 0: df_before = df_all
df_before(df_all, game_date) ==
    LET before == SelectSeq(df_all, LAMBDA r : r.date < game_date)
    IN  IF Len(before) = 0 THEN df_all ELSE before

\* Lines 201-221: one record per game of the file for which predict returned
\* a prediction.
nfl_model_predictions(games, model) ==
    LET df_all == SortByDate(nfl_completed(games))
        one(g) ==
            LET pred == nfl_predict(g.home_team, g.away_team,
                                    df_before(df_all, g.date), NoneRec, model)
            IN  IF g.home_team \notin NFL_TEAMS \/ g.away_team \notin NFL_TEAMS
                   \/ pred = NoneRec
                THEN <<>>
                ELSE << [home_team |-> g.home_team, away_team |-> g.away_team,
                         date |-> g.date, week |-> g.week,
                         winner |-> pred.winner, confidence |-> pred.confidence,
                         home_win_prob |-> pred.home_win_prob,
                         away_win_prob |-> pred.away_win_prob] >>
    IN  Concat([i \in 1..Len(games) |-> one(games[i])])

\* skipped += 1 in the model loop of backfill_nfl (lines 203-205, 218-221):
\* the games with a side outside NFL_TEAMS and those predict gave nothing for.
nfl_model_batch(games, model) ==
    LET df_all == SortByDate(nfl_completed(games))
        invalid == {i \in 1..Len(games) : games[i].home_team \notin NFL_TEAMS
                                          \/ games[i].away_team \notin NFL_TEAMS}
        none == {i \in 1..Len(games) \ invalid :
                    nfl_predict(games[i].home_team, games[i].away_team,
                                df_before(df_all, games[i].date), NoneRec, model) = NoneRec}
    IN  [games |-> {GameKey(games[i]) : i \in 1..Len(games)},
         failed |-> {GameKey(games[i]) : i \in invalid \cup none},
         skipped |-> Cardinality(invalid) + Cardinality(none), replaced |-> 0]

\* ---- the state the training files are left in
TrainIdle ==
    /\ train_df = <<>>
    /\ team_stats = NoneRec
    /\ games_df = <<>>

LedgersIdle ==
    /\ NBAIdle
    /\ NFLIdle

InitBackfill ==
    /\ program = "backfill_historical_predictions"
    /\ AvailIdle
    /\ lastOp = "init"
    /\ lastAdded = 0
    /\ lastBatch = NoBatch
    /\ bf_sport \in {"nba", "nfl"}
    /\ bf_games = <<>>
    /\ nfl_model \in (IF bf_sport = "nfl" THEN LoadedModels \cup {NoneRec}
                      ELSE {NoneRec})
    /\ bf_predictions = <<>>
    /\ TrainIdle
    /\ LedgersIdle

\* fetch_historical_data.py finds one more game, played or not, on the last
\* listed date or a later one.
FetchGame ==
    /\ Len(bf_games) < MaxGames
    /\ \E d \in Days, m \in BFMatchups(bf_sport),
          sc \in FinalScores(bf_sport) \cup {<<>>} :
          /\ m = Exhibition(bf_sport) => d = 1
          /\ \A i \in 1..Len(bf_games) :
                /\ bf_games[i].date <= d
                /\ ~(bf_games[i].date = d /\ bf_games[i].home_team = m[1])
          /\ bf_games' = Append(bf_games, HistoricalRecord(bf_sport, d, m, sc))
    /\ lastOp' = "env"
    /\ lastAdded' = 0
    /\ UNCHANGED program
    /\ UNCHANGED availVars
    /\ lastBatch' = NoBatch
    /\ UNCHANGED <<bf_sport, nfl_model, bf_predictions, train_df, team_stats, games_df>>
    /\ UNCHANGED nbaVars
    /\ UNCHANGED nflVars

\* backfill_nfl: nothing is written when no game is completed; the loaded
\* regression when nfl_model.pkl loads, the heuristic when it does not.
BackfillNFL ==
    /\ bf_sport = "nfl"
    /\ IF Len(nfl_completed(bf_games)) = 0
       THEN /\ lastOp' = "backfill_nothing"
            /\ lastBatch' = NoBatch
            /\ UNCHANGED bf_predictions
       ELSE IF nfl_model # NoneRec
       THEN /\ lastOp' = "backfill_model"
            /\ lastBatch' = nfl_model_batch(bf_games, nfl_model)
            /\ bf_predictions' = nfl_model_predictions(bf_games, nfl_model)
       ELSE /\ lastOp' = "backfill_heuristic"
            /\ lastBatch' = heuristic_batch(bf_games, NFL_TEAMS)
            /\ bf_predictions' = nfl_heuristic_predictions(bf_games)
    /\ lastAdded' = 0
    /\ UNCHANGED program
    /\ UNCHANGED availVars
    /\ UNCHANGED <<bf_sport, bf_games, nfl_model, train_df, team_stats, games_df>>
    /\ UNCHANGED nbaVars
    /\ UNCHANGED nflVars

\* ------------------------------------------------------------------------
\* BASKETBALL CLASSIFIER  (src/ml_model.py)
\* ------------------------------------------------------------------------

RowsPerGame == 3     \* player rows the dataset holds per side of a game
RecentRows == 10     \* team_games.tail(10)
MinRows == 5         \* if len(recent_games) < 5: continue

\* The two teams whose box scores the dataset holds, in the order groupby
\* sorts them.
TrainTeams == <<"BOS", "NYK">>

\* One row of database_24_25.csv: the columns the predictor reads.  The
\* assists, rebounds, shooting percentages (in percent) and game score of a
\* row go with its points.
BoxScoreRow(date, tm, opp, pts, res) ==
    [Data |-> date, Tm |-> tm, Opp |-> opp, PTS |-> pts, Res |-> res,
     AST |-> pts - 7, TRB |-> pts - 5, FG_Pct |-> 40 + pts,
     P3_Pct |-> 25 + pts, FT_Pct |-> 70 + pts, GmSc |-> pts - 2]

\* The player rows of the dataset in file order (by date): every game gives
\* RowsPerGame rows to each side, each row carrying the side's result and
\* the player's points (the players of a side score alike).
PlayerRows(df) ==
    Concat([i \in 1..Len(df) |->
        [k \in 1..(2 * RowsPerGame) |->
            IF k <= RowsPerGame
            THEN BoxScoreRow(df[i].Data, df[i].Tm, df[i].Opp, df[i].PTS, df[i].Res)
            ELSE BoxScoreRow(df[i].Data, df[i].Opp, df[i].Tm, df[i].OppPTS,
                             IF df[i].Res = "W" THEN "L" ELSE "W")]])

\* The snapshot of one team (lines 40-59), NoneRec when it has fewer than
\* five recent rows.
TeamSnapshot(rows, team) ==
    LET team_rows == SelectSeq(rows, LAMBDA r : r.Tm = team)
        recent_games == LastN(team_rows, RecentRows)
        n == Len(recent_games)
        mean(col) == Frac(SumSeq([i \in 1..n |-> recent_games[i][col]]), n)
    IN  IF n < MinRows THEN NoneRec
        ELSE [Avg_PTS |-> mean("PTS"),
              Avg_AST |-> mean("AST"),
              Avg_TRB |-> mean("TRB"),
              Avg_FG_Pct |-> mean("FG_Pct"),
              Avg_3P_Pct |-> mean("P3_Pct"),
              Avg_FT_Pct |-> mean("FT_Pct"),
              Win_Pct |-> Frac(Len(SelectSeq(recent_games,
                                             LAMBDA r : r.Res = "W")), n),
              Avg_GmSc |-> mean("GmSc"),
              Games_Played |-> n]

\* calculate_team_features(df) indexed by team: the teams with a snapshot.
calculate_team_features(rows) ==
    LET teams == {t \in Range(TrainTeams) :
                     /\ \E i \in 1..Len(rows) : rows[i].Tm = t
                     /\ TeamSnapshot(rows, t) # NoneRec}
    IN  [t \in teams |-> TeamSnapshot(rows, t)]

\* The feature vector built from two snapshots (lines 98-119, 186-203).
GameFeatures(home_stats, away_stats) ==
    [Home_PTS |-> home_stats.Avg_PTS, Away_PTS |-> away_stats.Avg_PTS,
     Home_AST |-> home_stats.Avg_AST, Away_AST |-> away_stats.Avg_AST,
     Home_TRB |-> home_stats.Avg_TRB, Away_TRB |-> away_stats.Avg_TRB,
     Home_FG_Pct |-> home_stats.Avg_FG_Pct, Away_FG_Pct |-> away_stats.Avg_FG_Pct,
     Home_3P_Pct |-> home_stats.Avg_3P_Pct, Away_3P_Pct |-> away_stats.Avg_3P_Pct,
     Home_Win_Pct |-> home_stats.Win_Pct, Away_Win_Pct |-> away_stats.Win_Pct,
     Home_GmSc |-> home_stats.Avg_GmSc, Away_GmSc |-> away_stats.Avg_GmSc,
     PTS_Diff |-> FracSub(home_stats.Avg_PTS, away_stats.Avg_PTS),
     Win_Pct_Diff |-> FracSub(home_stats.Win_Pct, away_stats.Win_Pct)]

\* feature_cols of train (lines 126-129): the columns of X, in order.
feature_cols ==
    <<"Home_PTS", "Away_PTS", "Home_AST", "Away_AST", "Home_TRB", "Away_TRB",
      "Home_FG_Pct", "Away_FG_Pct", "Home_3P_Pct", "Away_3P_Pct",
      "Home_Win_Pct", "Away_Win_Pct", "Home_GmSc", "Away_GmSc",
      "PTS_Diff", "Win_Pct_Diff">>

\* X = games_df[feature_cols]: the vector the forest is fitted on for one
\* training row.
TrainingVector(features) == [i \in 1..Len(feature_cols) |-> features[feature_cols[i]]]

\* create_game_features(df): one training row per date and (Tm, Opp) pair
\* whose two teams have a snapshot, built from the snapshots stats.
create_game_features(rows, stats) ==
    LET row(d, tm) ==
            LET first == SelectSeq(rows, LAMBDA r : r.Data = d /\ r.Tm = tm)
            IN  IF first = <<>> THEN <<>>
                ELSE IF tm \notin DOMAIN stats \/ first[1].Opp \notin DOMAIN stats
                THEN <<>>
                ELSE << [Date |-> d, Home_Team |-> tm, Away_Team |-> first[1].Opp,
                         features |-> GameFeatures(stats[tm], stats[first[1].Opp]),
                         Result |-> IF first[1].Res = "W" THEN 1 ELSE 0] >>
    IN  Concat([d \in 1..MaxDay |->
                  Concat([k \in 1..Len(TrainTeams) |-> row(d, TrainTeams[k])])])

\* self.model.predict(features): the fitted forest, here one that votes for
\* the home side when the last column of X, Win_Pct_Diff, is positive.
forest_predict(features) == IF features[Len(feature_cols)][1] > 0 THEN 1 ELSE 0

FracMul(a, b) == Frac(a[1] * b[1], a[2] * b[2])

\* Variant of InferenceVector with the two rebound entries ahead of the two
\* assist entries.
InferenceVectorSwapped(home_stats, away_stats, home_injury_factor, away_injury_factor) ==
    LET home_pts == FracMul(home_stats.Avg_PTS, home_injury_factor)
        away_pts == FracMul(away_stats.Avg_PTS, away_injury_factor)
    IN  << home_pts, away_pts,
           FracMul(home_stats.Avg_TRB, home_injury_factor),
           FracMul(away_stats.Avg_TRB, away_injury_factor),
           FracMul(home_stats.Avg_AST, home_injury_factor),
           FracMul(away_stats.Avg_AST, away_injury_factor),
           home_stats.Avg_FG_Pct, away_stats.Avg_FG_Pct,
           home_stats.Avg_3P_Pct, away_stats.Avg_3P_Pct,
           home_stats.Win_Pct, away_stats.Win_Pct,
           FracMul(home_stats.Avg_GmSc, home_injury_factor),
           FracMul(away_stats.Avg_GmSc, away_injury_factor),
           FracSub(home_pts, away_pts),
           FracSub(home_stats.Win_Pct, away_stats.Win_Pct) >>

\* Variant of InferenceVector that scales the win rate as well.
InferenceVectorScalingWinRate(home_stats, away_stats, home_injury_factor, away_injury_factor) ==
    LET home_pts == FracMul(home_stats.Avg_PTS, home_injury_factor)
        away_pts == FracMul(away_stats.Avg_PTS, away_injury_factor)
        home_win == FracMul(home_stats.Win_Pct, home_injury_factor)
        away_win == FracMul(away_stats.Win_Pct, away_injury_factor)
    IN  << home_pts, away_pts,
           FracMul(home_stats.Avg_AST, home_injury_factor),
           FracMul(away_stats.Avg_AST, away_injury_factor),
           FracMul(home_stats.Avg_TRB, home_injury_factor),
           FracMul(away_stats.Avg_TRB, away_injury_factor),
           home_stats.Avg_FG_Pct, away_stats.Avg_FG_Pct,
           home_stats.Avg_3P_Pct, away_stats.Avg_3P_Pct,
           home_win, away_win,
           FracMul(home_stats.Avg_GmSc, home_injury_factor),
           FracMul(away_stats.Avg_GmSc, away_injury_factor),
           FracSub(home_pts, away_pts),
           FracSub(home_win, away_win) >>

\* Lines 176-203 of predict_game: the adjusted stats and the array handed to
\* the forest.
InferenceVector(home_stats, away_stats, home_injury_factor, away_injury_factor) ==
    LET home_pts == FracMul(home_stats.Avg_PTS, home_injury_factor)
        away_pts == FracMul(away_stats.Avg_PTS, away_injury_factor)
        home_ast == FracMul(home_stats.Avg_AST, home_injury_factor)
        away_ast == FracMul(away_stats.Avg_AST, away_injury_factor)
        home_trb == FracMul(home_stats.Avg_TRB, home_injury_factor)
        away_trb == FracMul(away_stats.Avg_TRB, away_injury_factor)
        home_gmsc == FracMul(home_stats.Avg_GmSc, home_injury_factor)
        away_gmsc == FracMul(away_stats.Avg_GmSc, away_injury_factor)
    IN  << home_pts, away_pts, home_ast, away_ast, home_trb, away_trb,
           home_stats.Avg_FG_Pct, away_stats.Avg_FG_Pct,
           home_stats.Avg_3P_Pct, away_stats.Avg_3P_Pct,
           home_stats.Win_Pct, away_stats.Win_Pct,
           home_gmsc, away_gmsc,
           FracSub(home_pts, away_pts),
           FracSub(home_stats.Win_Pct, away_stats.Win_Pct) >>

\* predict_game(home, away, injury_data): NoneRec stands for the ValueError
\* raised when a team has no snapshot; the factors are 1.0 when injury_data
\* is None or empty.
predict_game(stats, home_team, away_team, injury_data) ==
    IF home_team \notin DOMAIN stats \/ away_team \notin DOMAIN stats
    THEN NoneRec
    ELSE LET home_injury_factor == IF injury_data = NoneRec THEN <<1, 1>>
                                   ELSE injury_data.home_injury_factor
             away_injury_factor == IF injury_data = NoneRec THEN <<1, 1>>
                                   ELSE injury_data.away_injury_factor
             features == InferenceVector(stats[home_team], stats[away_team],
                                         home_injury_factor, away_injury_factor)
         IN  [winner |-> IF forest_predict(features) = 1 THEN home_team
                         ELSE away_team,
              features |-> features,
              home_injury_factor |-> home_injury_factor,
              away_injury_factor |-> away_injury_factor]

\* Lines 99-117 of backfill_nba: one record per game of the file whose teams
\* are known and whose prediction did not raise.
nba_model_predictions(games, stats) ==
    LET one(g) ==
            LET pred == predict_game(stats, g.home_team, g.away_team, NoneRec)
            IN  IF g.home_team \notin NBA_TEAMS \/ g.away_team \notin NBA_TEAMS
                   \/ pred = NoneRec
                THEN <<>>
                ELSE << [home_team |-> g.home_team, away_team |-> g.away_team,
                         date |-> g.date, winner |-> pred.winner] >>
    IN  Concat([i \in 1..Len(games) |-> one(games[i])])

\* skipped += 1 in the model loop of backfill_nba (lines 101-103, 115-117):
\* the games with a side outside NBA_TEAMS and those predict_game raised for.
nba_model_batch(games, stats) ==
    LET invalid == {i \in 1..Len(games) : games[i].home_team \notin NBA_TEAMS
                                          \/ games[i].away_team \notin NBA_TEAMS}
        raised == {i \in 1..Len(games) \ invalid :
                      predict_game(stats, games[i].home_team,
                                   games[i].away_team, NoneRec) = NoneRec}
    IN  [games |-> {GameKey(games[i]) : i \in 1..Len(games)},
         failed |-> {GameKey(games[i]) : i \in invalid \cup raised},
         skipped |-> Cardinality(invalid) + Cardinality(raised), replaced |-> 0]

\* backfill_nba: the loaded classifier with its cached snapshots when
\* nba_model.pkl loads, the heuristic when it does not.
BackfillNBA ==
    /\ bf_sport = "nba"
    /\ IF team_stats # NoneRec
       THEN /\ lastOp' = "backfill_model"
            /\ lastBatch' = nba_model_batch(bf_games, team_stats)
            /\ bf_predictions' = nba_model_predictions(bf_games, team_stats)
       ELSE /\ lastOp' = "backfill_heuristic"
            /\ lastBatch' = heuristic_batch(bf_games, NBA_TEAMS)
            /\ bf_predictions' = nba_heuristic_predictions(bf_games)
    /\ lastAdded' = 0
    /\ UNCHANGED program
    /\ UNCHANGED availVars
    /\ UNCHANGED <<bf_sport, bf_games, nfl_model, train_df, team_stats, games_df>>
    /\ UNCHANGED nbaVars
    /\ UNCHANGED nflVars

NextBackfill ==
    \/ FetchGame
    \/ BackfillNBA
    \/ BackfillNFL

SpecBackfill == InitBackfill /\ [][NextBackfill]_vars

InitTrain ==
    /\ program = "ml_model"
    /\ AvailIdle
    /\ lastOp = "init"
    /\ lastAdded = 0
    /\ lastBatch = NoBatch
    /\ bf_sport = "nba"
    /\ bf_games = <<>>
    /\ nfl_model = NoneRec
    /\ bf_predictions = <<>>
    /\ TrainIdle
    /\ LedgersIdle

\* A game between the two teams is played on a day after the last one: the
\* dataset gains its box score and the historical file its record.  The
\* winning side's players score 12 each, the losing side's 10.
BoxScoreArrives ==
    /\ Len(train_df) < MaxGames
    /\ \E d \in Days, k \in 1..Len(TrainTeams), res \in {"W", "L"} :
          LET tm == TrainTeams[k]
              opp == TrainTeams[3 - k]
          IN  /\ \A i \in 1..Len(train_df) : train_df[i].Data < d
              /\ train_df' = Append(train_df,
                    [Data |-> d, Tm |-> tm, Opp |-> opp, Res |-> res,
                     PTS |-> IF res = "W" THEN 12 ELSE 10,
                     OppPTS |-> IF res = "W" THEN 10 ELSE 12])
              /\ bf_games' = Append(bf_games,
                    HistoricalRecord("nba", d, <<tm, opp>>,
                        IF res = "W" THEN <<104, 98>> ELSE <<98, 104>>))
    /\ lastOp' = "env"
    /\ lastAdded' = 0
    /\ UNCHANGED program
    /\ UNCHANGED availVars
    /\ lastBatch' = NoBatch
    /\ UNCHANGED <<bf_sport, nfl_model, bf_predictions, team_stats, games_df>>
    /\ UNCHANGED nbaVars
    /\ UNCHANGED nflVars

\* train(df) followed by save_model: the snapshots and the training rows of
\* create_game_features.  With no team of five rows the empty frame has no
\* 'Team' column and set_index raises: nothing is saved.
Train ==
    /\ LET rows == PlayerRows(train_df)
           stats == calculate_team_features(rows)
       IN  /\ DOMAIN stats # {}
           /\ team_stats' = stats
           /\ games_df' = create_game_features(rows, stats)
    /\ lastOp' = "train"
    /\ lastAdded' = 0
    /\ UNCHANGED program
    /\ UNCHANGED availVars
    /\ lastBatch' = NoBatch
    /\ UNCHANGED <<bf_sport, bf_games, nfl_model, bf_predictions, train_df>>
    /\ UNCHANGED nbaVars
    /\ UNCHANGED nflVars

NextTrain ==
    \/ BoxScoreArrives
    \/ Train
    \/ BackfillNBA

SpecTrain == InitTrain /\ [][NextTrain]_vars

\* The repository as a whole: one of its programs, run again and again
\* against its files.
\* ---- a season's file: two teams with a record, then their meeting
MaxSeason == 10      \* games each of the two teams has played

\* The two teams, the opponent both have played, and the final scores of a
\* won and a lost home game of each.
SeasonTeams(sport) ==
    IF sport = "nba" THEN [A |-> "BOS", B |-> "NYK", X |-> "LAL"]
    ELSE [A |-> "KC", B |-> "DEN", X |-> "BUF"]

SeasonScores(sport) ==
    IF sport = "nba"
    THEN [A |-> << <<104, 98>>, <<98, 104>> >>, B |-> << <<110, 90>>, <<90, 110>> >>]
    ELSE [A |-> << <<24, 20>>, <<20, 24>> >>, B |-> << <<30, 10>>, <<10, 30>> >>]

\* The file fetch_historical_data.py leaves after gA home games of A (wA
\* won), then gB home games of B (wB won), one a day, with the meeting of A
\* and B scheduled for the day after.
SeasonFile(sport, gA, wA, gB, wB, aHome) ==
    LET T == SeasonTeams(sport)
        S == SeasonScores(sport)
        ofA == [i \in 1..gA |->
                  HistoricalRecord(sport, i, <<T.A, T.X>>,
                                   IF i <= wA THEN S.A[1] ELSE S.A[2])]
        ofB == [j \in 1..gB |->
                  HistoricalRecord(sport, gA + j, <<T.B, T.X>>,
                                   IF j <= wB THEN S.B[1] ELSE S.B[2])]
        meeting == HistoricalRecord(sport, gA + gB + 1,
                                    IF aHome THEN <<T.A, T.B>> ELSE <<T.B, T.A>>,
                                    <<>>)
    IN  ofA \o ofB \o <<meeting>>

InitSeason ==
    /\ program = "backfill_historical_predictions"
    /\ AvailIdle
    /\ lastOp = "init"
    /\ lastAdded = 0
    /\ lastBatch = NoBatch
    /\ bf_sport \in {"nba", "nfl"}
    /\ \E gA, gB \in 0..MaxSeason, aHome \in BOOLEAN :
       \E wA \in 0..gA, wB \in 0..gB :
          bf_games = SeasonFile(bf_sport, gA, wA, gB, wB, aHome)
    /\ nfl_model = NoneRec
    /\ bf_predictions = <<>>
    /\ TrainIdle
    /\ LedgersIdle

NextSeason == BackfillNBA \/ BackfillNFL

SpecSeason == InitSeason /\ [][NextSeason]_vars

\* ---- the football features of one game under an injury report
MaxPerPosition == 2  \* injury entries a report holds per position

\* The positions the provider reports, the kicker standing for those outside
\* key_positions.
ReportPositions == <<"QB", "RB", "WR", "TE", "OL", "K">>

\* get_injuries (src/nfl_data_fetcher.py:126-137): the entries of one team,
\* count[pos] of them at each position.
InjuryEntries(count) ==
    Concat([i \in 1..Len(ReportPositions) |->
              [j \in 1..count[ReportPositions[i]] |->
                  [position |-> ReportPositions[i], status |-> "Out"]]])

InitInjuries ==
    /\ program = "nfl_ml_model"
    /\ AvailIdle
    /\ lastOp = "init"
    /\ lastAdded = 0
    /\ lastBatch = NoBatch
    /\ bf_sport = "nfl"
    /\ bf_games \in {SeasonFile("nfl", 1, 1, 1, 0, TRUE),
                     SeasonFile("nfl", 2, 1, 1, 1, FALSE)}
    /\ nfl_model = NoneRec
    /\ bf_predictions = <<>>
    /\ TrainIdle
    /\ LedgersIdle

\* create_game_features for the scheduled meeting of the file, once in a
\* run, as predict calls it: with the two sides' entries of the injury report
\* (generate_week_predictions, lines 210-219) or with None (the backfill).
CreateGameFeatures ==
    /\ lastOp = "init"
    /\ \E none \in BOOLEAN,
          home \in [Range(ReportPositions) -> 0..MaxPerPosition],
          away \in [{"QB", "K"} -> 0..MaxPerPosition] :
          LET meeting == bf_games[Len(bf_games)]
              injury_data ==
                  IF none THEN NoneRec
                  ELSE [home |-> InjuryEntries(home),
                        away |-> InjuryEntries([q \in Range(ReportPositions) |->
                                     IF q \in {"QB", "K"} THEN away[q] ELSE 0])]
          IN  /\ none => /\ \A q \in DOMAIN home : home[q] = 0
                         /\ \A q \in DOMAIN away : away[q] = 0
              /\ game_injuries' = injury_data
              /\ nfl_features' =
                    nfl_create_game_features(meeting.home_team, meeting.away_team,
                                             nfl_completed(bf_games), injury_data)
    /\ lastOp' = "create_game_features"
    /\ lastAdded' = 0
    /\ lastBatch' = NoBatch
    /\ UNCHANGED program
    /\ UNCHANGED <<roster_df, strength, response, fetched, prediction, disk, pc>>
    /\ UNCHANGED mlVars
    /\ UNCHANGED nbaVars
    /\ UNCHANGED nflVars

NextInjuries == CreateGameFeatures

SpecInjuries == InitInjuries /\ [][NextInjuries]_vars

\* ---- the basketball strength of one team from its player rows
MaxRoster == 10      \* players on the team's roster
MaxTeamGames == 3    \* games of the team the dataset holds
StrengthRows == 10   \* team_games.tail(10)
StrengthMinRows == 5 \* if len(recent_games) < 5: return None

StrengthTeam == "BOS"

\* Variant of injury_factor_table without the row for five players.
injury_factor_table_short(unique_players, regular_players) ==
    IF unique_players >= 10 /\ regular_players >= 8 THEN <<1, 1>>
    ELSE IF unique_players >= 9 /\ regular_players >= 7 THEN <<19, 20>>
    ELSE IF unique_players >= 8 /\ regular_players >= 6 THEN <<9, 10>>
    ELSE IF unique_players >= 7 /\ regular_players >= 5 THEN <<17, 20>>
    ELSE IF unique_players >= 6 THEN <<4, 5>>
    ELSE <<7, 10>>

\* The if/elif chain of lines 122-137.
injury_factor_table(unique_players, regular_players) ==
    IF unique_players >= 10 /\ regular_players >= 8 THEN <<1, 1>>
    ELSE IF unique_players >= 9 /\ regular_players >= 7 THEN <<19, 20>>
    ELSE IF unique_players >= 8 /\ regular_players >= 6 THEN <<9, 10>>
    ELSE IF unique_players >= 7 /\ regular_players >= 5 THEN <<17, 20>>
    ELSE IF unique_players >= 6 THEN <<4, 5>>
    ELSE IF unique_players >= 5 THEN <<3, 4>>
    ELSE <<7, 10>>

\* NBADataFetcher.calculate_team_strength_with_injuries(team_abbr, df): None
\* with fewer than five recent rows, else the base metrics scaled by the
\* factor of the table.  avg_ast, avg_trb and avg_gmsc are scaled as avg_pts
\* is; the rows of df are in date order.
calculate_team_strength_with_injuries(team_abbr, df) ==
    LET team_rows == SelectSeq(df, LAMBDA r : r.Tm = team_abbr)
        recent_games == LastN(team_rows, StrengthRows)
        n == Len(recent_games)
        players == {recent_games[i].Player : i \in 1..n}
        appearances(pl) == Cardinality({i \in 1..n : recent_games[i].Player = pl})
        unique_players == Cardinality(players)
        regular_players == Cardinality({pl \in players : appearances(pl) >= 3})
        injury_factor == injury_factor_table(unique_players, regular_players)
        avg_pts == Frac(SumSeq([i \in 1..n |-> recent_games[i].PTS]), n)
    IN  IF n < StrengthMinRows THEN NoneRec
        ELSE [avg_pts |-> Frac(avg_pts[1] * injury_factor[1],
                               avg_pts[2] * injury_factor[2]),
              win_pct |-> Frac(Len(SelectSeq(recent_games,
                                             LAMBDA r : r.Res = "W")), n),
              injury_factor |-> injury_factor,
              active_players |-> unique_players]

InitStrength ==
    /\ program = "nba_data_fetcher"
    /\ AvailIdle
    /\ lastOp = "init"
    /\ lastAdded = 0
    /\ lastBatch = NoBatch
    /\ MLIdle
    /\ LedgersIdle

\* The team plays on the day after its last game and the dataset gains one
\* row per player who appeared: the first n of the roster.
TeamGamePlayed ==
    /\ \A i \in 1..Len(roster_df) : roster_df[i].Data < MaxTeamGames
    /\ \E n \in 1..MaxRoster :
          LET d == IF roster_df = <<>> THEN 1
                   ELSE roster_df[Len(roster_df)].Data + 1
          IN  roster_df' = roster_df \o
                  [j \in 1..n |-> [Player |-> j, Tm |-> StrengthTeam,
                                   Data |-> d, PTS |-> 10, Res |-> "W"]]
    /\ strength' = NoneRec
    /\ lastOp' = "env"
    /\ lastAdded' = 0
    /\ lastBatch' = NoBatch
    /\ UNCHANGED program
    /\ UNCHANGED <<game_injuries, nfl_features, response, fetched, prediction, disk, pc>>
    /\ UNCHANGED mlVars
    /\ UNCHANGED nbaVars
    /\ UNCHANGED nflVars

\* get_game_with_injuries asks for the strength of the team.
CalculateTeamStrength ==
    /\ strength' = calculate_team_strength_with_injuries(StrengthTeam, roster_df)
    /\ lastOp' = "calculate_team_strength"
    /\ lastAdded' = 0
    /\ lastBatch' = NoBatch
    /\ UNCHANGED program
    /\ UNCHANGED <<game_injuries, nfl_features, roster_df, response, fetched, prediction, disk, pc>>
    /\ UNCHANGED mlVars
    /\ UNCHANGED nbaVars
    /\ UNCHANGED nflVars

NextStrength == TeamGamePlayed \/ CalculateTeamStrength

SpecStrength == InitStrength /\ [][NextStrength]_vars

\* ------------------------------------------------------------------------
\* The statistics endpoint (api/stats.py) over the basketball ledger file

MaxTotal == 13

\* f"{wins}-{losses}"
FormatRecord(wins, losses) == ToString(wins) \o "-" \o ToString(losses)

\* do_GET with the record taken against every game counted.
get_stats_against_total(stats) ==
    [total_predictions |-> stats.total_predictions,
     correct_predictions |-> stats.correct_predictions,
     accuracy |-> IF stats.total_predictions > 0
                  THEN Frac(100 * stats.correct_predictions, stats.total_predictions)
                  ELSE <<0, 1>>,
     record |-> FormatRecord(stats.correct_predictions, stats.total_predictions)]

\* do_GET: the body built from what load_stats returned.
\*   if stats['total_predictions'] > 0:
\*       stats['accuracy'] = (correct / total) * 100
\*   else: stats['accuracy'] = 0
\*   wins = correct; losses = total - correct; record = f"{wins}-{losses}"
get_stats(stats) ==
    LET wins == stats.correct_predictions
        losses == stats.total_predictions - stats.correct_predictions
    IN  [total_predictions |-> stats.total_predictions,
         correct_predictions |-> stats.correct_predictions,
         accuracy |-> IF stats.total_predictions > 0
                      THEN Frac(100 * stats.correct_predictions,
                                stats.total_predictions)
                      ELSE <<0, 1>>,
         record |-> FormatRecord(wins, losses)]

\* prediction_stats.json after total reconciliations of which correct were
\* right: the hits first, one entry per reconciliation.
LedgerOf(total, correct) ==
    [total_predictions |-> total,
     correct_predictions |-> correct,
     predictions_history |->
        [i \in 1..total |->
            [date |-> 1, predicted |-> "BOS",
             actual |-> IF i <= correct THEN "BOS" ELSE "NYK",
             correct |-> (i <= correct)]]]

InitStats ==
    /\ program = "api_stats"
    /\ lastOp = "init"
    /\ lastAdded = 0
    /\ lastBatch = NoBatch
    /\ MLIdle
    /\ AvailIdle
    /\ NFLIdle
    /\ today = 1
    /\ nba_predictions = <<>>
    /\ nba_api = {}
    /\ nba_df = {}
    /\ counted = [k \in NBAKeys |-> 0]
    /\ \E total \in 0..MaxTotal : \E correct \in 0..total :
          nba_stats = LedgerOf(total, correct)

\* GET /api/stats
GetStats ==
    /\ response' = get_stats(nba_stats)
    /\ lastOp' = "do_GET"
    /\ lastAdded' = 0
    /\ lastBatch' = NoBatch
    /\ UNCHANGED program
    /\ UNCHANGED <<game_injuries, nfl_features, roster_df, strength, fetched, prediction, disk, pc>>
    /\ UNCHANGED mlVars
    /\ UNCHANGED nbaVars
    /\ UNCHANGED nflVars

NextStats == GetStats

SpecStats == InitStats /\ [][NextStats]_vars

\* ------------------------------------------------------------------------
\* One basketball run (daily_predictor.py) against its three files, with
\* every write split at open(file, 'w') and a process that can die anywhere

\* json.load / pickle.load raise on a file that exists and does not parse.
Unreadable(health) == health \in {"malformed", "truncated"}

availOther == <<game_injuries, nfl_features, roster_df, strength, response,
                fetched, prediction>>

InitPersist ==
    /\ program = "daily_predictor"
    /\ lastOp = "init"
    /\ lastAdded = 0
    /\ lastBatch = NoBatch
    /\ MLIdle
    /\ NFLIdle
    /\ NBAIdle
    /\ game_injuries = NoneRec
    /\ nfl_features = NoneRec
    /\ roster_df = <<>>
    /\ strength = NoneRec
    /\ response = NoneRec
    /\ fetched = NoneRec
    /\ prediction = NoneRec
    /\ pc = "idle"
    /\ \E m \in {"missing", "whole", "malformed"},
          st \in {"missing", "whole", "malformed"},
          pr \in {"missing", "whole", "malformed"} :
          disk = [model |-> m, stats |-> st, predictions |-> pr]

\* try: predictor.load_model(...) except: train, save_model (lines 207-215).
LoadOrTrain ==
    /\ pc = "idle"
    /\ disk' = [disk EXCEPT !.model = "whole"]
    /\ pc' = "update"
    /\ lastOp' = IF disk.model = "whole" THEN "load_model" ELSE "train"
    /\ lastAdded' = 0
    /\ lastBatch' = NoBatch
    /\ UNCHANGED program
    /\ UNCHANGED availOther
    /\ UNCHANGED mlVars
    /\ UNCHANGED nbaVars
    /\ UNCHANGED nflVars

\* update_accuracy inside try/except up to the open(STATS_FILE, 'w') of its
\* save_stats: load_stats and the predictions load raise on a file that does
\* not parse, the live-results call can raise, and the except clause of
\* line 226 swallows all three.
UpdateAccuracyOpen ==
    /\ pc = "update"
    /\ \E raises \in BOOLEAN :
          IF \/ Unreadable(disk.stats)
             \/ Unreadable(disk.predictions)
             \/ raises /\ ReachesFetch(nba_stats, today)
          THEN /\ disk' = disk
               /\ pc' = "schedule"
               /\ lastOp' = "update_accuracy_raised"
          ELSE /\ disk' = [disk EXCEPT !.stats = "truncated"]
               /\ pc' = "update_write"
               /\ lastOp' = "open_stats"
    /\ lastAdded' = 0
    /\ lastBatch' = NoBatch
    /\ UNCHANGED program
    /\ UNCHANGED availOther
    /\ UNCHANGED mlVars
    /\ UNCHANGED nbaVars
    /\ UNCHANGED nflVars

\* json.dump(stats, f) and the close of save_stats (lines 30-31).  Until
\* here nba_stats is the document the file held before it was truncated.
UpdateAccuracyClose ==
    /\ pc = "update_write"
    /\ LET acc == update_accuracy(nba_stats, counted, nba_predictions, today)
       IN  /\ nba_stats' = acc.stats
           /\ counted' = acc.counted
           /\ lastAdded' = acc.added
    /\ disk' = [disk EXCEPT !.stats = "whole"]
    /\ pc' = "schedule"
    /\ lastOp' = "update_accuracy"
    /\ lastBatch' = NoBatch
    /\ UNCHANGED program
    /\ UNCHANGED availOther
    /\ UNCHANGED mlVars
    /\ UNCHANGED <<today, nba_predictions, nba_api, nba_df>>
    /\ UNCHANGED nflVars

\* From get_todays_games to the open(PREDICTIONS_FILE, 'w') of line 312: an
\* empty schedule returns [] (lines 235-237); the json.load of line 296 is
\* outside every try.
PredictAndOpen ==
    /\ pc = "schedule"
    /\ \E today_games \in SUBSET Schedule(today) :
       \E raised \in SUBSET today_games :
          /\ lastBatch' = [games |-> {<<m[1], m[2], today>> : m \in today_games},
                            failed |-> {<<m[1], m[2], today>> : m \in raised},
                            skipped |-> 0,
                            replaced |-> 0]
          /\ IF today_games = {}
             THEN /\ pc' = "returned"
                  /\ disk' = disk
             ELSE IF Unreadable(disk.predictions)
             THEN /\ pc' = "aborted"
                  /\ disk' = disk
             ELSE /\ pc' = "predictions_write"
                  /\ disk' = [disk EXCEPT !.predictions = "truncated"]
    /\ lastOp' = "predict"
    /\ lastAdded' = 0
    /\ UNCHANGED program
    /\ UNCHANGED availOther
    /\ UNCHANGED mlVars
    /\ UNCHANGED nbaVars
    /\ UNCHANGED nflVars

\* json.dump(existing_predictions, f) and the close (lines 312-313).
PredictionsClose ==
    /\ pc = "predictions_write"
    /\ LET today_games == {<<g[1], g[2]>> : g \in lastBatch.games}
           raised == {<<g[1], g[2]>> : g \in lastBatch.failed}
       IN  nba_predictions' =
              MergePredictions(nba_predictions,
                               TodaysPredictions(today_games, raised, today),
                               today)
    /\ disk' = [disk EXCEPT !.predictions = "whole"]
    /\ pc' = "final_stats"
    /\ lastOp' = "write_predictions"
    /\ lastAdded' = 0
    /\ UNCHANGED lastBatch
    /\ UNCHANGED program
    /\ UNCHANGED availOther
    /\ UNCHANGED mlVars
    /\ UNCHANGED <<today, nba_stats, nba_api, nba_df, counted>>
    /\ UNCHANGED nflVars

\* stats = load_stats() of line 316, outside every try, then the
\* open(STATS_FILE, 'w') of save_stats.
FinalStatsOpen ==
    /\ pc = "final_stats"
    /\ IF Unreadable(disk.stats)
       THEN /\ pc' = "aborted"
            /\ disk' = disk
       ELSE /\ pc' = "final_write"
            /\ disk' = [disk EXCEPT !.stats = "truncated"]
    /\ lastOp' = "load_stats"
    /\ lastAdded' = 0
    /\ UNCHANGED lastBatch
    /\ UNCHANGED program
    /\ UNCHANGED availOther
    /\ UNCHANGED mlVars
    /\ UNCHANGED nbaVars
    /\ UNCHANGED nflVars

\* json.dump(stats, f) and the close of the last save_stats (line 317).
FinalStatsClose ==
    /\ pc = "final_write"
    /\ disk' = [disk EXCEPT !.stats = "whole"]
    /\ pc' = "returned"
    /\ lastOp' = "save_stats"
    /\ lastAdded' = 0
    /\ UNCHANGED lastBatch
    /\ UNCHANGED program
    /\ UNCHANGED availOther
    /\ UNCHANGED mlVars
    /\ UNCHANGED nbaVars
    /\ UNCHANGED nflVars

\* The process is killed where it stands.
Crash ==
    /\ pc \in {"update", "update_write", "schedule", "predictions_write",
               "final_stats", "final_write"}
    /\ pc' = "crashed"
    /\ lastOp' = "env"
    /\ lastAdded' = 0
    /\ UNCHANGED lastBatch
    /\ UNCHANGED disk
    /\ UNCHANGED program
    /\ UNCHANGED availOther
    /\ UNCHANGED mlVars
    /\ UNCHANGED nbaVars
    /\ UNCHANGED nflVars

\* The scheduler starts the next run, the same day or the day after.
NextRun ==
    /\ pc \in {"returned", "aborted", "crashed"}
    /\ \E d \in {today, today + 1} :
          /\ d <= MaxDay
          /\ today' = d
    /\ pc' = "idle"
    /\ lastOp' = "env"
    /\ lastAdded' = 0
    /\ lastBatch' = NoBatch
    /\ UNCHANGED disk
    /\ UNCHANGED program
    /\ UNCHANGED availOther
    /\ UNCHANGED mlVars
    /\ UNCHANGED <<nba_predictions, nba_stats, nba_api, nba_df, counted>>
    /\ UNCHANGED nflVars

NextPersist ==
    \/ LoadOrTrain
    \/ UpdateAccuracyOpen
    \/ UpdateAccuracyClose
    \/ PredictAndOpen
    \/ PredictionsClose
    \/ FinalStatsOpen
    \/ FinalStatsClose
    \/ Crash
    \/ NextRun

SpecPersist == InitPersist /\ [][NextPersist]_vars

\* ------------------------------------------------------------------------
\* The schedule getters: daily_predictor.get_todays_games,
\* NFLDataFetcher.get_week_games and nfl_daily_predictor.get_week_games

MaxScheduleDay == 4     \* days 2 and 3 stand for 2025-12-02 and 2025-12-03
MaxRows == 3            \* dataset rows handed to get_todays_games
MaxDraws == 2           \* random.randint(12, 14) draws, cut down

Matchup(home, away, date) ==
    [home_team |-> home, away_team |-> away, date |-> date]

\* What requests.get did: raised, timed out, or answered.
Reply(outcome, status_code, data) ==
    [outcome |-> outcome, status_code |-> status_code, data |-> data]

ProviderGame(home, away, status) ==
    [home_team |-> home, visitor_team |-> away, status |-> status]

BasketballReplies ==
    {Reply("raises", 0, <<>>), Reply("timeout", 0, <<>>)} \cup
    {Reply("response", code, data) :
        code \in {200, 500},
        data \in {<<>>,
                  <<ProviderGame("BOS", "NYK", "Final")>>,
                  <<ProviderGame("BOS", "NYK", "Scheduled")>>,
                  <<ProviderGame("LAL", "DEN", "In Progress"),
                    ProviderGame("BOS", "NYK", "Final")>>}}

\* Fallback: manual lists for specific dates (lines 59-81).
StaticFixture(day) ==
    IF day = 2
    THEN <<Matchup("PHI", "WAS", day), Matchup("TOR", "POR", day),
           Matchup("BOS", "NYK", day), Matchup("NOP", "MIN", day),
           Matchup("SAS", "MEM", day), Matchup("GSW", "OKC", day)>>
    ELSE IF day = 3
    THEN <<Matchup("IND", "DEN", day), Matchup("CLE", "POR", day),
           Matchup("ORL", "SAS", day), Matchup("ATL", "LAC", day),
           Matchup("NYK", "CHO", day), Matchup("CHI", "BKN", day),
           Matchup("MIL", "DET", day), Matchup("HOU", "SAC", day),
           Matchup("DAL", "MIA", day)>>
    ELSE <<>>

\* get_todays_games_from_api: the scheduled and running games of a 200
\* answer; everything else, an exception included, falls to the fixtures.
get_todays_games_from_api(reply, day) ==
    LET live == IF reply.outcome = "response" /\ reply.status_code = 200
                THEN SelectSeq(reply.data,
                        LAMBDA g : g.status \in {"Scheduled", "In Progress"})
                ELSE <<>>
        games == [i \in 1..Len(live) |->
                    Matchup(live[i].home_team, live[i].visitor_team, day)]
    IN  IF games # <<>> THEN games ELSE StaticFixture(day)

RECURSIVE UniqueMatchups(_, _, _, _)
\* for _, row in today_games.iterrows(): keep the first row of each
\* tuple(sorted([row['Tm'], row['Opp']])).
UniqueMatchups(rows, seen, matchups, day) ==
    IF rows = <<>> THEN matchups
    ELSE LET row == Head(rows)
             matchup_key == {row.Tm, row.Opp}
         IN  IF matchup_key \in seen
             THEN UniqueMatchups(Tail(rows), seen, matchups, day)
             ELSE UniqueMatchups(Tail(rows), seen \cup {matchup_key},
                                 Append(matchups,
                                        Matchup(row.Tm, row.Opp, day)),
                                 day)

\* get_todays_games with every row of today counted as a matchup.
get_todays_games_keeping_rows(reply, df, day) ==
    LET api_games == get_todays_games_from_api(reply, day)
        today_games == SelectSeq(df, LAMBDA row : row.Data = day)
    IN  IF api_games # <<>> THEN api_games
        ELSE [i \in 1..Len(today_games) |->
                Matchup(today_games[i].Tm, today_games[i].Opp, day)]

\* get_todays_games: the provider (or fixture) list when it is not empty,
\* else the matchups of today's dataset rows.
get_todays_games(reply, df, day) ==
    LET api_games == get_todays_games_from_api(reply, day)
        today_games == SelectSeq(df, LAMBDA row : row.Data = day)
    IN  IF api_games # <<>> THEN api_games
        ELSE UniqueMatchups(today_games, {}, <<>>, day)

DatasetRow(tm, opp, date) == [Tm |-> tm, Opp |-> opp, Data |-> date]

RowChoices(day) ==
    {DatasetRow(m[1], m[2], d) :
        m \in {<<"LAL", "DEN">>, <<"DEN", "LAL">>, <<"BOS", "NYK">>},
        d \in {day - 1, day}}

\* ---- football
FootballEvent(home, away) == [home_team |-> home, away_team |-> away]

FootballReplies ==
    {Reply("raises", 0, <<>>), Reply("timeout", 0, <<>>)} \cup
    {Reply("response", code, data) :
        code \in {200, 503},
        data \in {<<>>, <<FootballEvent("KC", "DEN")>>}}

\* NFLDataFetcher.get_week_games(week) from its second request on: the
\* events of a 200 answer, [] for every other outcome.
fetcher_get_week_games(reply, week) ==
    IF reply.outcome = "response" /\ reply.status_code = 200
    THEN [i \in 1..Len(reply.data) |->
            [home_team |-> reply.data[i].home_team,
             away_team |-> reply.data[i].away_team,
             week |-> week, season |-> 2025]]
    ELSE <<>>

GenTeams == {"BUF", "MIA", "NE"}

\* The (home, away) pairs random.choice can draw.
Draws == {d \in GenTeams \X GenTeams : d[1] # d[2]}

\* Days since season_start (2025-09-04) on which the getter runs.
SeasonDays == {0 - 10, 0, 6, 7, 200}

Max2(a, b) == IF a > b THEN a ELSE b
Min2(a, b) == IF a < b THEN a ELSE b

RECURSIVE GenerateGames(_, _, _, _)
\* for i in range(num_games): a drawn pair already used is dropped; the
\* first two games fall on Thursday, the next ten on Sunday, the rest on
\* Monday.
GenerateGames(draws, used_matchups, generated_games, week) ==
    IF draws = <<>> THEN generated_games
    ELSE LET home == Head(draws)[1]
             away == Head(draws)[2]
             matchup == {home, away}
             week_start == (week - 1) * 7
             game_date == IF Len(generated_games) < 2 THEN week_start
                          ELSE IF Len(generated_games) < 12
                          THEN week_start + 3
                          ELSE week_start + 4
         IN  IF matchup \in used_matchups
             THEN GenerateGames(Tail(draws), used_matchups,
                                generated_games, week)
             ELSE GenerateGames(Tail(draws), used_matchups \cup {matchup},
                                Append(generated_games,
                                       [home_team |-> home, away_team |-> away,
                                        date |-> game_date, week |-> week,
                                        season |-> 2025]),
                                week)

\* nfl_daily_predictor.get_week_games: the fetcher's games, or the
\* generated ones when it returned none.
get_week_games(games, days_diff, draws) ==
    IF games = <<>>
    THEN LET week == Max2(1, Min2(18, (days_diff \div 7) + 1))
         IN  GenerateGames(draws, {}, <<>>, week)
    ELSE [i \in 1..Len(games) |->
            [home_team |-> games[i].home_team, away_team |-> games[i].away_team,
             date |-> NoScore, week |-> games[i].week,
             season |-> games[i].season]]

InitSchedule ==
    /\ program = "schedule"
    /\ AvailIdle
    /\ lastOp = "init"
    /\ lastAdded = 0
    /\ lastBatch = NoBatch
    /\ MLIdle
    /\ LedgersIdle

\* get_todays_games(df) on some day, with some answer of the provider.
GetTodaysGames ==
    /\ lastOp = "init"
    /\ \E day \in 1..MaxScheduleDay, reply \in BasketballReplies :
       \E df \in SeqsUpTo(RowChoices(day), MaxRows) :
          fetched' = [sport |-> "nba", reply |-> reply, today |-> day,
                      df |-> df, draws |-> <<>>,
                      games |-> get_todays_games(reply, df, day)]
    /\ lastOp' = "get_todays_games"
    /\ lastAdded' = 0
    /\ lastBatch' = NoBatch
    /\ UNCHANGED program
    /\ UNCHANGED <<game_injuries, nfl_features, roster_df, strength, response, prediction, disk, pc>>
    /\ UNCHANGED mlVars
    /\ UNCHANGED nbaVars
    /\ UNCHANGED nflVars

\* get_week_games(data_fetcher) for week 1, with some answer of the provider
\* and some run of the random draws.
GetWeekGames ==
    /\ lastOp = "init"
    /\ \E days_diff \in SeasonDays, reply \in FootballReplies :
       \E num_games \in (MaxDraws - 1)..MaxDraws :
       \E draws \in [1..num_games -> Draws] :
          fetched' = [sport |-> "nfl", reply |-> reply, today |-> days_diff,
                      df |-> <<>>, draws |-> draws,
                      games |-> get_week_games(
                                    fetcher_get_week_games(reply, 1),
                                    days_diff, draws)]
    /\ lastOp' = "get_week_games"
    /\ lastAdded' = 0
    /\ lastBatch' = NoBatch
    /\ UNCHANGED program
    /\ UNCHANGED <<game_injuries, nfl_features, roster_df, strength, response, prediction, disk, pc>>
    /\ UNCHANGED mlVars
    /\ UNCHANGED nbaVars
    /\ UNCHANGED nflVars

NextSchedule == GetTodaysGames \/ GetWeekGames

SpecSchedule == InitSchedule /\ [][NextSchedule]_vars

\* ------------------------------------------------------------------------
\* NFLGamePredictor.predict on the features of one game

MaxMargin == 17     \* largest average point differential of a side

\* The two features the loaded regressions weigh, for both sides.
GameInputs ==
    {[home |-> [point_differential |-> <<hp, 1>>, season_win_rate |-> hw],
      away |-> [point_differential |-> <<ap, 1>>, season_win_rate |-> aw]] :
        hp \in (0 - MaxMargin)..MaxMargin, ap \in (0 - MaxMargin)..MaxMargin,
        hw \in {<<0, 1>>, <<1, 1>>}, aw \in {<<0, 1>>, <<1, 1>>}}

InitPredict ==
    /\ program = "nfl_ml_model"
    /\ AvailIdle
    /\ lastOp = "init"
    /\ lastAdded = 0
    /\ lastBatch = NoBatch
    /\ MLIdle
    /\ LedgersIdle

\* predict("KC", "DEN", df) with a loaded regression, from the point where
\* create_game_features has returned the features.
Predict ==
    /\ lastOp = "init"
    /\ \E model \in LoadedModels, f \in GameInputs :
          LET point_diff == model_predict(model, f)
          IN  prediction' = [model |-> model, features |-> f,
                             result |-> calibrate("KC", "DEN", point_diff)]
    /\ lastOp' = "predict"
    /\ lastAdded' = 0
    /\ lastBatch' = NoBatch
    /\ UNCHANGED program
    /\ UNCHANGED <<game_injuries, nfl_features, roster_df, strength, response, fetched, disk, pc>>
    /\ UNCHANGED mlVars
    /\ UNCHANGED nbaVars
    /\ UNCHANGED nflVars

NextPredict == Predict

SpecPredict == InitPredict /\ [][NextPredict]_vars

\* ------------------------------------------------------------------------
\* NBAGamePredictor.predict_game with injury data, on a trained predictor

\* A snapshot of calculate_team_features with the given scoring and win rate.
Snapshot(avg_pts, win_pct) ==
    [Avg_PTS |-> avg_pts,
     Avg_AST |-> <<5, 2>>,
     Avg_TRB |-> <<9, 2>>,
     Avg_FG_Pct |-> <<9, 20>>,
     Avg_3P_Pct |-> <<7, 20>>,
     Avg_FT_Pct |-> <<4, 5>>,
     Win_Pct |-> win_pct,
     Avg_GmSc |-> <<8, 1>>,
     Games_Played |-> 10]

\* The factors get_game_with_injuries can hand over: those of the table.
InjuryFactors ==
    {injury_factor_table(u, r) : u \in 0..MaxRoster, r \in 0..MaxRoster}

InitPredictGame ==
    /\ program = "ml_model"
    /\ AvailIdle
    /\ lastOp = "init"
    /\ lastAdded = 0
    /\ lastBatch = NoBatch
    /\ bf_sport = "nba"
    /\ bf_games = <<>>
    /\ nfl_model = NoneRec
    /\ bf_predictions = <<>>
    /\ train_df = <<>>
    /\ games_df = <<>>
    /\ LedgersIdle
    /\ \E hp \in {<<12, 1>>, <<25, 2>>}, ap \in {<<12, 1>>, <<21, 2>>},
          hw \in {<<1, 2>>, <<3, 5>>}, aw \in {<<1, 2>>, <<2, 5>>} :
          team_stats = [t \in {"BOS", "NYK"} |->
                           IF t = "BOS" THEN Snapshot(hp, hw)
                           ELSE Snapshot(ap, aw)]

\* predict_game("BOS", "NYK", injury_data) as generate_todays_predictions
\* calls it, with or without injury data.
PredictGame ==
    /\ lastOp = "init"
    /\ \E injury_data \in {NoneRec} \cup
            {[home_injury_factor |-> h, away_injury_factor |-> a] :
                h \in InjuryFactors, a \in InjuryFactors} :
          prediction' = [injury_data |-> injury_data,
                         result |-> predict_game(team_stats, "BOS", "NYK",
                                                 injury_data)]
    /\ team_stats' = team_stats
    /\ lastOp' = "predict_game"
    /\ lastAdded' = 0
    /\ lastBatch' = NoBatch
    /\ UNCHANGED program
    /\ UNCHANGED <<game_injuries, nfl_features, roster_df, strength, response, fetched, disk, pc>>
    /\ UNCHANGED <<bf_sport, bf_games, nfl_model, bf_predictions, train_df, games_df>>
    /\ UNCHANGED nbaVars
    /\ UNCHANGED nflVars

NextPredictGame == PredictGame

SpecPredictGame == InitPredictGame /\ [][NextPredictGame]_vars

InitAll == InitNBA \/ InitNFL \/ InitBackfill \/ InitTrain

NextAll ==
    \/ program = "daily_predictor" /\ NextNBA
    \/ program = "nfl_daily_predictor" /\ NextNFL
    \/ program = "backfill_historical_predictions" /\ NextBackfill
    \/ program = "ml_model" /\ NextTrain

SpecAll == InitAll /\ [][NextAll]_vars

\* ------------------------------------------------------------------------
\* PROPERTIES OF THE LEDGERS
\* ------------------------------------------------------------------------

InWindow(date_str, day) == \E i \in 1..LookBack : dates_to_check(day)[i] = date_str

\* The ledger counters after update_accuracy has run once more on the
\* current ledger, store and results.
CountersAfter(stats, cnt) ==
    LET acc == update_accuracy(stats, cnt, nba_predictions, today)
    IN  <<acc.stats.total_predictions, acc.stats.correct_predictions>>

\* C1: over any sequence of basketball update_accuracy runs every stored
\* prediction is counted in total_predictions, and given a history entry, at
\* most once; and after one run on the current store and results a second
\* run with the same store and results leaves total_predictions and
\* correct_predictions as the first run left them.
C1_CountedAtMostOnce ==
    /\ \A k \in NBAKeys : counted[k] <= 1
    /\ nba_stats.total_predictions = SumOver(counted, NBAKeys)
    /\ Len(nba_stats.predictions_history) = nba_stats.total_predictions
    /\ LET first == update_accuracy(nba_stats, counted, nba_predictions, today)
       IN  CountersAfter(first.stats, first.counted) =
               <<first.stats.total_predictions, first.stats.correct_predictions>>

\* A run on the third day that met, and did not count again, a stored
\* prediction of the first day that an earlier run had counted and whose
\* result is still on offer.
C1_Witness ==
    /\ lastOp = "update_accuracy"
    /\ lastAdded = 0
    /\ today = 3
    /\ \E i \in 1..Len(nba_predictions) :
          /\ nba_predictions[i].date = 1
          /\ counted[KeyOf(nba_predictions[i])] = 1
          /\ actual_winner(nba_predictions[i], 1) # Null

\* C4: after a basketball update_accuracy run that reached its save_stats,
\* every stored prediction dated within the look-back window that has a
\* matching realized result has been reconciled (counted, with a history
\* entry), also when another game of its date was reconciled by an earlier run.
C4_ReconcileComplete ==
    lastOp = "update_accuracy" =>
        \A i \in 1..Len(nba_predictions) :
            LET pred == nba_predictions[i]
            IN  (InWindow(pred.date, today) /\ actual_winner(pred, pred.date) # Null)
                    => counted[KeyOf(pred)] >= 1

\* The football ledger counters after update_accuracy has run on the given
\* ledger with the current result set.
NFLCountersAfter(stats, rec, api_up) ==
    LET acc == nfl_update_accuracy(stats, rec, nfl_hist_file, nfl_week, api_up)
    IN  <<acc.stats.total_predictions, acc.stats.correct_predictions>>

\* C2: from any football ledger state, a second update_accuracy run with the
\* same result set (historical file and API results) leaves total_predictions
\* and correct_predictions as the first run left them.
C2_SecondRunUnchanged ==
    \A api_up \in BOOLEAN :
        LET first == nfl_update_accuracy(nfl_stats, nfl_rec, nfl_hist_file,
                                         nfl_week, api_up)
        IN  NFLCountersAfter(first.stats, first.rec, api_up) =
                <<first.stats.total_predictions, first.stats.correct_predictions>>

\* C3: once a football ledger entry has a non-null actual, no later step
\* changes the entry (its actual and correct stay, it never returns to
\* pending) and no entry is counted more than once.
C3_ReconciledIsTerminal ==
    /\ [](\A i \in 1..Len(nfl_rec) : nfl_rec[i] <= 1)
    /\ [][\A i \in 1..Len(nfl_stats.predictions_history) :
            nfl_stats.predictions_history[i].actual # Null =>
                /\ i <= Len(nfl_stats'.predictions_history)
                /\ nfl_stats'.predictions_history[i] = nfl_stats.predictions_history[i]
                /\ nfl_rec'[i] = nfl_rec[i]]_vars

\* An update_accuracy run that changed nothing although the ledger holds a
\* reconciled entry and the historical file still offers a result for it.
C3_Witness ==
    /\ lastOp = "nfl_update_accuracy"
    /\ lastAdded = 0
    /\ \E i \in 1..Len(nfl_stats.predictions_history) :
          LET e == nfl_stats.predictions_history[i]
          IN  /\ e.actual # Null
              /\ nfl_rec[i] = 1
              /\ \E j \in 1..Len(historical_results(nfl_hist_file)) :
                    /\ HistoricalMatch(e, historical_results(nfl_hist_file)[j])
                    /\ historical_results(nfl_hist_file)[j].winner # e.actual

\* C5: every prediction generate_week_predictions has just produced is
\* recorded in the ledger as an entry of its game (home, away, week).
C5_PredictionRecorded ==
    lastOp = "generate_week_predictions" =>
        \A i \in 1..Len(nfl_predictions) :
            nfl_predictions[i].week = nfl_week =>
                \E j \in 1..Len(nfl_stats.predictions_history) :
                    LET e == nfl_stats.predictions_history[j]
                    IN  /\ e.home_team = nfl_predictions[i].home_team
                        /\ e.away_team = nfl_predictions[i].away_team
                        /\ e.week = nfl_predictions[i].week

\* C9: after a football update_accuracy run no entry is left pending while
\* the historical file holds the result of its game (same week, same two
\* teams) with the sides listed the other way round.
C9_MatchEitherSide ==
    lastOp = "nfl_update_accuracy" =>
        \A i \in 1..Len(nfl_stats.predictions_history) :
            \A j \in 1..Len(historical_results(nfl_hist_file)) :
                LET e == nfl_stats.predictions_history[i]
                    r == historical_results(nfl_hist_file)[j]
                IN  (r.home_team = e.away_team /\ r.away_team = e.home_team
                        /\ r.week = e.week) => e.actual # Null

\* C10: a reconciled football entry carries the result of its own game: the
\* game of its week between its two teams is over and its winner is the
\* entry's actual.
C10_FullKey ==
    \A i \in 1..Len(nfl_stats.predictions_history) :
        LET e == nfl_stats.predictions_history[i]
        IN  e.actual # Null =>
                /\ e.week < nfl_week
                /\ {e.home_team, e.away_team} = {NFLHome(e.week), NFLAway(e.week)}
                /\ e.actual = NFLWinner(e.week)

\* The records of a frame dated strictly before game_date.
StrictlyBefore(rows, game_date) == SelectSeq(rows, LAMBDA r : r.date < game_date)

\* C6: the snapshots behind the feature vector of a game dated D - in every
\* training row create_game_features built and in every prediction the
\* backfill made with the cached snapshots - are the snapshots computed from
\* the dataset rows dated strictly before D.
C6_SnapshotsFromBefore ==
    LET rows == PlayerRows(train_df)
        before(d) == SelectSeq(rows, LAMBDA r : r.Data < d)
    IN  /\ lastOp = "train" =>
            \A i \in 1..Len(games_df) :
                LET g == games_df[i]
                    home_stats == TeamSnapshot(before(g.Date), g.Home_Team)
                    away_stats == TeamSnapshot(before(g.Date), g.Away_Team)
                IN  /\ home_stats # NoneRec
                    /\ away_stats # NoneRec
                    /\ g.features = GameFeatures(home_stats, away_stats)
        /\ lastOp = "backfill_model" /\ bf_sport = "nba" =>
            \A i \in 1..Len(bf_predictions) :
                LET p == bf_predictions[i]
                    pred == predict_game(calculate_team_features(before(p.date)),
                                         p.home_team, p.away_team, NoneRec)
                IN  /\ pred # NoneRec
                    /\ pred.winner = p.winner

\* C7: every prediction the football backfill made with the loaded model
\* for a game dated D is the prediction computed from the completed games
\* dated strictly before D, the earliest games included.
C7_PredictedFromBefore ==
    lastOp = "backfill_model" /\ bf_sport = "nfl" =>
        \A i \in 1..Len(bf_predictions) :
            LET p == bf_predictions[i]
                df_all == SortByDate(nfl_completed(bf_games))
                pred == nfl_predict(p.home_team, p.away_team,
                                    StrictlyBefore(df_all, p.date), NoneRec, nfl_model)
            IN  /\ pred # NoneRec
                /\ pred.winner = p.winner
                /\ pred.confidence = p.confidence

\* C8: the heuristic prediction of every game of the file, in either sport,
\* is the one computed from the completed games dated strictly before the
\* game's date: winner, confidence and both win probabilities.
C8_HeuristicFromBefore ==
    lastOp = "backfill_heuristic" =>
        LET TEAMS == IF bf_sport = "nba" THEN NBA_TEAMS ELSE NFL_TEAMS
            valid == SelectSeq(bf_games, LAMBDA g : g.home_team \in TEAMS
                                                    /\ g.away_team \in TEAMS)
        IN  /\ Len(bf_predictions) = Len(valid)
            /\ \A i \in 1..Len(bf_predictions) :
                  bf_predictions[i] =
                      HeuristicPrediction(valid[i],
                          StrictlyBefore(completed_games(bf_games), valid[i].date),
                          IF bf_sport = "nba" THEN 100 ELSE 22)

\* A heuristic backfill of a file in which a completed game has a completed
\* game of one of its teams before its date and another one on its date,
\* and whose prediction named the side that went on to lose it.
C8_Witness ==
    /\ lastOp = "backfill_heuristic"
    /\ \E i \in 1..Len(bf_predictions), k \in 1..Len(bf_games) :
          LET g == bf_games[k]
              shares(gm) == {gm.home_team, gm.away_team}
                                \cap {g.home_team, g.away_team} # {}
              c == completed_games(bf_games)
          IN  /\ g.status = "completed"
              /\ GameKey(g) = GameKey(bf_predictions[i])
              /\ \E j \in 1..Len(c) : c[j].date < g.date /\ shares(c[j])
              /\ \E j \in 1..Len(c) :
                    c[j].date = g.date /\ shares(c[j]) /\ c[j] # g
              /\ bf_predictions[i].winner # g.winner

\* The date at which a raising run raised: the first date of the look-back
\* window that is not skipped as processed.
RaisedAtDate(stats, day) ==
    LET idx == {i \in 1..LookBack : dates_to_check(day)[i] \notin processed_dates(stats)}
    IN  dates_to_check(day)[CHOOSE i \in idx : \A j \in idx : i <= j]

\* C11: after a basketball update_accuracy run in which the live-results
\* call raised for one date, the ledger holds the reconciliations of the
\* other dates of the look-back window: a run that leaves out the failed
\* date finds nothing left to reconcile.
C11_OtherDatesReconciled ==
    lastOp = "update_accuracy_raised" =>
        ReconcileDates([stats |-> nba_stats, counted |-> counted, added |-> 0],
                       dates_to_check(today),
                       processed_dates(nba_stats)
                           \cup {RaisedAtDate(nba_stats, today)},
                       nba_predictions).added = 0

C13_BatchAccounting ==
    lastOp \in {"backfill_model", "backfill_heuristic"} =>
        Len(bf_predictions) + lastBatch.skipped = Len(bf_games)

\* The keys of the stored predictions, in store order, are pairwise different.
OnePerKey(keys) ==
    \A i, j \in 1..Len(keys) : keys[i] = keys[j] => i = j

NBAStoreKey(p) == <<p.home_team, p.away_team, p.date>>

NFLStoreKey(p) == <<p.home_team, p.away_team, p.week>>

C15_LedgerMonotone ==
    [][ LET h == nba_stats.predictions_history
            f == nfl_stats.predictions_history
        IN  /\ nba_stats'.total_predictions >= nba_stats.total_predictions
            /\ nba_stats'.correct_predictions >= nba_stats.correct_predictions
            /\ Len(nba_stats'.predictions_history) >= Len(h)
            /\ SubSeq(nba_stats'.predictions_history, 1, Len(h)) = h
            /\ nfl_stats'.total_predictions >= nfl_stats.total_predictions
            /\ nfl_stats'.correct_predictions >= nfl_stats.correct_predictions
            /\ Len(nfl_stats'.predictions_history) >= Len(f)
            /\ \A i \in 1..Len(f) :
                  LET e == nfl_stats'.predictions_history[i]
                  IN  /\ e.home_team = f[i].home_team
                      /\ e.away_team = f[i].away_team
                      /\ e.week = f[i].week
                      /\ e.predicted = f[i].predicted
      ]_vars

\* A basketball run that appended an entry to a history that already held
\* one, the earlier entry a miss and the new one a hit.
C15_Witness ==
    /\ lastOp = "update_accuracy"
    /\ lastAdded = 1
    /\ Len(nba_stats.predictions_history) = 2
    /\ ~nba_stats.predictions_history[1].correct
    /\ nba_stats.predictions_history[2].correct
    /\ nba_stats.total_predictions = 2
    /\ nba_stats.correct_predictions = 1

\* C16: every heuristic prediction follows the rule: the side with the
\* strictly higher win rate over the completed games before the game's date
\* wins; on equal win rates the side with the higher average score wins, the
\* home side on equal averages, and confidence is 11/20; otherwise
\* confidence is 1/2 + |win-rate difference| clipped to [13/25, 23/25]; the
\* two win probabilities add up to 1 and the winner's is the confidence.
C16_HeuristicRule ==
    lastOp = "backfill_heuristic" =>
        \A i \in 1..Len(bf_predictions) :
            LET p == bf_predictions[i]
                prior == {k \in 1..Len(bf_games) :
                             /\ bf_games[k].status = "completed"
                             /\ bf_games[k].date < p.date}
                of(t) == {k \in prior :
                             t \in {bf_games[k].home_team, bf_games[k].away_team}}
                wins(t) == Cardinality({k \in prior : bf_games[k].winner = t})
                pts(t) == SumOver([k \in of(t) |->
                                     IF bf_games[k].home_team = t
                                     THEN bf_games[k].home_score
                                     ELSE bf_games[k].away_score], of(t))
                rate(t) == IF of(t) = {} THEN <<1, 2>>
                           ELSE <<wins(t), Cardinality(of(t))>>
                avg(t) == IF of(t) = {}
                          THEN <<IF bf_sport = "nba" THEN 100 ELSE 22, 1>>
                          ELSE <<pts(t), Cardinality(of(t))>>
                higher(a, b) == a[1] * b[2] > b[1] * a[2]
                rh == rate(p.home_team)
                ra == rate(p.away_team)
                raw == Frac(rh[2] * ra[2] + 2 * Abs(rh[1] * ra[2] - ra[1] * rh[2]),
                            2 * rh[2] * ra[2])
                clipped == IF higher(<<13, 25>>, raw) THEN <<13, 25>>
                           ELSE IF higher(raw, <<23, 25>>) THEN <<23, 25>>
                           ELSE raw
            IN  /\ higher(rh, ra) =>
                      p.winner = p.home_team /\ p.confidence = clipped
                /\ higher(ra, rh) =>
                      p.winner = p.away_team /\ p.confidence = clipped
                /\ (~higher(rh, ra) /\ ~higher(ra, rh)) =>
                      /\ p.confidence = <<11, 20>>
                      /\ p.winner = IF higher(avg(p.away_team), avg(p.home_team))
                                    THEN p.away_team ELSE p.home_team
                /\ FracAdd(p.home_win_prob, p.away_win_prob) = <<1, 1>>
                /\ p.winner = p.home_team => p.home_win_prob = p.confidence
                /\ p.winner = p.away_team => p.away_win_prob = p.confidence

\* A heuristic backfill of the season in which the home side had won 7 of 10
\* games and the visitors 4 of 10: the home side is picked with confidence
\* 4/5, neither bound of the clip reached.
C16_Witness ==
    /\ lastOp = "backfill_heuristic"
    /\ Len(bf_games) = 21
    /\ Len(bf_predictions) = 21
    /\ Len(SelectSeq(bf_games, LAMBDA g : g.winner = bf_games[21].home_team)) = 7
    /\ Len(SelectSeq(bf_games, LAMBDA g : g.winner = bf_games[21].away_team)) = 4
    /\ bf_predictions[21].winner = bf_games[21].home_team
    /\ bf_predictions[21].confidence = <<4, 5>>

\* C17: every prediction the football regression makes from a predicted
\* differential d names the home side iff d > 0, has confidence
\* min(19/20, 1/2 + |d|/30), which lies between 1/2 and 19/20, has
\* home_win_prob = 1/2 + d/60, and its two win probabilities add up to 1;
\* the backfill writes these values.
C17_Calibration ==
    lastOp = "backfill_model" /\ bf_sport = "nfl" =>
        \A i \in 1..Len(bf_predictions) :
            LET p == bf_predictions[i]
                df_all == SortByDate(nfl_completed(bf_games))
                pred == nfl_predict(p.home_team, p.away_team,
                                    df_before(df_all, p.date), NoneRec, nfl_model)
                d == pred.point_differential
                raw == Frac(15 * d[2] + Abs(d[1]), 30 * d[2])
            IN  /\ pred # NoneRec
                /\ (pred.winner = p.home_team) <=> (d[1] > 0)
                /\ pred.winner \in {p.home_team, p.away_team}
                /\ pred.confidence = IF FracLess(<<19, 20>>, raw) THEN <<19, 20>> ELSE raw
                /\ ~FracLess(pred.confidence, <<1, 2>>)
                /\ ~FracLess(<<19, 20>>, pred.confidence)
                /\ pred.home_win_prob = Frac(30 * d[2] + d[1], 60 * d[2])
                /\ FracAdd(pred.home_win_prob, pred.away_win_prob) = <<1, 1>>
                /\ p.winner = pred.winner
                /\ p.confidence = pred.confidence
                /\ p.home_win_prob = pred.home_win_prob
                /\ p.away_win_prob = pred.away_win_prob

\* A football backfill with the loaded model that wrote a home pick at the
\* capped confidence, an away pick below the cap and a pick at differential
\* zero, which goes to the visitors at confidence 1/2.
C17_Witness ==
    /\ lastOp = "backfill_model"
    /\ bf_sport = "nfl"
    /\ \E i, j, k \in 1..Len(bf_predictions) :
          /\ bf_predictions[i].winner = bf_predictions[i].home_team
          /\ bf_predictions[i].confidence = <<19, 20>>
          /\ bf_predictions[j].winner = bf_predictions[j].away_team
          /\ FracLess(<<1, 2>>, bf_predictions[j].confidence)
          /\ FracLess(bf_predictions[j].confidence, <<19, 20>>)
          /\ bf_predictions[k].winner = bf_predictions[k].away_team
          /\ bf_predictions[k].confidence = <<1, 2>>

StepTable ==
    << <<10, 8, <<1, 1>> >>, <<9, 7, <<19, 20>> >>, <<8, 6, <<9, 10>> >>,
       <<7, 5, <<17, 20>> >>, <<6, 0, <<4, 5>> >>, <<5, 0, <<3, 4>> >>,
       <<0, 0, <<7, 10>> >> >>

FirstMatchingRow(u, r) ==
    LET rows == {i \in 1..Len(StepTable) : u >= StepTable[i][1] /\ r >= StepTable[i][2]}
    IN  StepTable[CHOOSE i \in rows : \A j \in rows : i <= j][3]

\* C19: for every pair (unique_players, regular_players) the basketball
\* availability factor is the factor of the first matching row of the step
\* table and lies between 7/10 and 1; the factor of every strength
\* calculate_team_strength_with_injuries returns is the one the table gives
\* for the players of the team's last ten rows.
C19_StepTable ==
    /\ \A u \in 0..(MaxRoster + 2) : \A r \in 0..u :
          /\ injury_factor_table(u, r) = FirstMatchingRow(u, r)
          /\ ~FracLess(injury_factor_table(u, r), <<7, 10>>)
          /\ ~FracLess(<<1, 1>>, injury_factor_table(u, r))
    /\ (lastOp = "calculate_team_strength" /\ strength # NoneRec) =>
          LET lastRows == {i \in 1..Len(roster_df) : i > Len(roster_df) - 10}
              players == {roster_df[i].Player : i \in lastRows}
              u == Cardinality(players)
              r == Cardinality({pl \in players :
                       Cardinality({i \in lastRows : roster_df[i].Player = pl}) >= 3})
          IN  /\ strength.active_players = u
              /\ strength.injury_factor = FirstMatchingRow(u, r)

\* A strength computed for a team whose last ten rows name five players,
\* two of them in three games: the factor is 3/4.
C19_Witness ==
    /\ lastOp = "calculate_team_strength"
    /\ strength # NoneRec
    /\ strength.active_players = 5
    /\ strength.injury_factor = <<3, 4>>
    /\ Cardinality({pl \in 1..MaxRoster :
          Cardinality({i \in 1..Len(roster_df) : roster_df[i].Player = pl}) >= 3}) = 2

\* C20: a team with fewer than 5 games before the as-of date has no
\* snapshot and a matchup involving it no prediction: every team with a
\* basketball snapshot after training has 5 or more games in the dataset,
\* and both sides of every game the football model predicted in a backfill
\* have 5 or more completed games before the game's date.
C20_MinimumGames ==
    /\ lastOp = "train" =>
          \A t \in DOMAIN team_stats :
              Cardinality({i \in 1..Len(train_df) :
                              t \in {train_df[i].Tm, train_df[i].Opp}}) >= 5
    /\ (lastOp = "backfill_model" /\ bf_sport = "nfl") =>
          \A i \in 1..Len(bf_predictions) :
              \A t \in {bf_predictions[i].home_team, bf_predictions[i].away_team} :
                  Cardinality({k \in 1..Len(bf_games) :
                      /\ bf_games[k].status = "completed"
                      /\ bf_games[k].date < bf_predictions[i].date
                      /\ t \in {bf_games[k].home_team, bf_games[k].away_team}}) >= 5

\* C21: the vector built at prediction time has the length and the field
\* order of the vectors the model was fitted on, and with both availability
\* factors 1 it equals the training vector built from the same snapshots:
\* basketball, the 16 entries of predict_game against the feature_cols
\* columns of the training row, for every training row and every game the
\* backfill predicted; football, the 15 entries of create_game_features
\* under a report without injuries against those without injury data.
C21_FeatureOrder ==
    /\ lastOp = "train" =>
          \A i \in 1..Len(games_df) :
              LET g == games_df[i]
                  pred == predict_game(team_stats, g.Home_Team, g.Away_Team, NoneRec)
              IN  /\ pred # NoneRec
                  /\ Len(pred.features) = 16
                  /\ pred.features = TrainingVector(g.features)
    /\ (lastOp = "backfill_model" /\ bf_sport = "nba") =>
          \A i \in 1..Len(bf_predictions) :
              LET p == bf_predictions[i]
                  pred == predict_game(team_stats, p.home_team, p.away_team, NoneRec)
              IN  /\ Len(pred.features) = 16
                  /\ pred.features =
                        TrainingVector(GameFeatures(team_stats[p.home_team],
                                                    team_stats[p.away_team]))
    /\ (lastOp = "backfill_model" /\ bf_sport = "nfl") =>
          \A i \in 1..Len(bf_predictions) :
              LET p == bf_predictions[i]
                  df == df_before(SortByDate(nfl_completed(bf_games)), p.date)
                  fitted == nfl_create_game_features(p.home_team, p.away_team,
                                                     df, NoneRec)
                  served == nfl_create_game_features(p.home_team, p.away_team, df,
                                                     [home |-> <<>>, away |-> <<>>])
              IN  /\ Len(nfl_feature_array(served)) = 15
                  /\ nfl_feature_array(served) = nfl_feature_array(fitted)

\* A trained classifier whose training row has different assist and rebound
\* entries and different entries for the two sides, and a backfill that
\* predicted a game with it.
C21_Witness ==
    /\ lastOp = "backfill_model"
    /\ bf_sport = "nba"
    /\ Len(bf_predictions) >= 1
    /\ Len(games_df) >= 1
    /\ games_df[1].features.Home_AST # games_df[1].features.Home_TRB
    /\ games_df[1].features.Home_AST # games_df[1].features.Away_AST

\* C22 as stated: the accuracy the endpoint returns is the ratio
\* correct_predictions / total_predictions (0 when total is 0) and the record
\* is '<correct>-<total - correct>'.
C22_AccuracyIsRatio ==
    response # NoneRec =>
        /\ response.accuracy =
              (IF nba_stats.total_predictions = 0 THEN <<0, 1>>
               ELSE Frac(nba_stats.correct_predictions,
                         nba_stats.total_predictions))
        /\ response.record =
              FormatRecord(nba_stats.correct_predictions,
                           nba_stats.total_predictions
                              - nba_stats.correct_predictions)

\* C22 amended: the accuracy the endpoint returns is the percentage
\* 100 * correct_predictions / total_predictions (0 when total is 0), and
\* the record is the string '<correct>-<total - correct>'.
C22_AccuracyIsPercentage ==
    response # NoneRec =>
        /\ 100 * nba_stats.correct_predictions * response.accuracy[2] =
              response.accuracy[1] * nba_stats.total_predictions
        /\ nba_stats.total_predictions = 0 => response.accuracy[1] = 0
        /\ response.accuracy[2] > 0
        /\ response.record =
              FormatRecord(nba_stats.correct_predictions,
                           nba_stats.total_predictions
                              - nba_stats.correct_predictions)

C22_Witness ==
    /\ lastOp = "do_GET"
    /\ nba_stats.total_predictions = 12
    /\ nba_stats.correct_predictions = 9
    /\ response.accuracy = <<75, 1>>
    /\ response.record = "9-3"

\* C23: a missing or malformed persisted file never aborts the batch: the
\* run of generate_todays_predictions reaches its end, and a run that found
\* games has stored its predictions and left a ledger file that parses.
C23_PersistedStateFailuresSurvived ==
    /\ pc # "aborted"
    /\ (pc = "returned" /\ lastBatch.games # {}) =>
          /\ disk.predictions = "whole"
          /\ disk.stats = "whole"

\* C24: a process that dies during save_stats or during the predictions
\* write leaves each file complete, never cut off at its open(file, 'w').
C24_AtomicWrites ==
    pc = "crashed" =>
        /\ disk.stats # "truncated"
        /\ disk.predictions # "truncated"

\* The provider gave no schedule: the request raised, timed out or came back
\* with a status other than 200.
ProviderFailed == fetched.reply.outcome # "response" \/ fetched.reply.status_code # 200

C26_WindowInGames ==
    (lastOp = "calculate_team_strength" /\ strength # NoneRec) =>
        LET dates == {roster_df[i].Data : i \in 1..Len(roster_df)}
            recent == {d \in dates :
                         Cardinality({e \in dates : e > d}) < 10}
            rows == {i \in 1..Len(roster_df) : roster_df[i].Data \in recent}
            players == {roster_df[i].Player : i \in rows}
            games_of(pl) == {roster_df[i].Data :
                                i \in {j \in rows : roster_df[j].Player = pl}}
            u == Cardinality(players)
            r == Cardinality({pl \in players : Cardinality(games_of(pl)) >= 3})
        IN  /\ strength.active_players = u
            /\ strength.injury_factor = FirstMatchingRow(u, r)

\* C27: the home_win_prob and the away_win_prob of every prediction the
\* football regression makes lie between 0 and 1.
C27_ProbabilitiesBounded ==
    prediction # NoneRec =>
        /\ prediction.result.home_win_prob[1] >= 0
        /\ prediction.result.away_win_prob[1] >= 0
        /\ ~FracLess(<<1, 1>>, prediction.result.home_win_prob)
        /\ ~FracLess(<<1, 1>>, prediction.result.away_win_prob)

\* The vector of the last predict_game against the snapshots: entry by entry,
\* points, assists, rebounds and game-score are the snapshot's value times the
\* side's factor, the shooting percentages and win rates are the snapshot's,
\* pts_diff is the difference of the scaled points and win_pct_diff that of
\* the win rates.
OffenseOnly ==
    LET f == prediction.result.features
        h == prediction.result.home_injury_factor
        a == prediction.result.away_injury_factor
        home == team_stats["BOS"]
        away == team_stats["NYK"]
        scaled(x, k) == Frac(x[1] * k[1], x[2] * k[2])
    IN  /\ Len(f) = 16
        /\ f[1] = scaled(home.Avg_PTS, h)  /\ f[2] = scaled(away.Avg_PTS, a)
        /\ f[3] = scaled(home.Avg_AST, h)  /\ f[4] = scaled(away.Avg_AST, a)
        /\ f[5] = scaled(home.Avg_TRB, h)  /\ f[6] = scaled(away.Avg_TRB, a)
        /\ f[7] = home.Avg_FG_Pct          /\ f[8] = away.Avg_FG_Pct
        /\ f[9] = home.Avg_3P_Pct          /\ f[10] = away.Avg_3P_Pct
        /\ f[11] = home.Win_Pct            /\ f[12] = away.Win_Pct
        /\ f[13] = scaled(home.Avg_GmSc, h) /\ f[14] = scaled(away.Avg_GmSc, a)
        /\ f[15] = FracSub(f[1], f[2])
        /\ f[16] = FracSub(home.Win_Pct, away.Win_Pct)
        /\ prediction.injury_data # NoneRec =>
              /\ h = prediction.injury_data.home_injury_factor
              /\ a = prediction.injury_data.away_injury_factor

\* C28: predict_game applies the availability factors to points, assists,
\* rebounds and game-score only, takes pts_diff from the scaled points and
\* win_pct_diff from the unscaled win rates, and leaves the cached team
\* snapshots as they were.
C28_OffenseOnly ==
    [][lastOp' = "predict_game" => (team_stats' = team_stats /\ OffenseOnly')]_vars

\* A prediction with the home side at factor 3/4 and the visitors at 9/10:
\* 12 points a game enter as 9, the win rate 3/5 enters as it is.
C28_Witness ==
    /\ lastOp = "predict_game"
    /\ prediction.injury_data # NoneRec
    /\ prediction.result.home_injury_factor = <<3, 4>>
    /\ prediction.result.away_injury_factor = <<9, 10>>
    /\ team_stats["BOS"].Avg_PTS = <<12, 1>>
    /\ team_stats["BOS"].Win_Pct = <<3, 5>>
    /\ prediction.result.features[1] = <<9, 1>>
    /\ prediction.result.features[11] = <<3, 5>>

\* The counters of a ledger agree with its history: total_predictions counts
\* the entries with an actual winner, correct_predictions those of them
\* flagged correct.
LedgerConsistent(stats) ==
    LET h == stats.predictions_history
        settled == {i \in 1..Len(h) : h[i].actual # Null}
    IN  /\ 0 <= stats.correct_predictions
        /\ stats.correct_predictions <= stats.total_predictions
        /\ stats.total_predictions = Cardinality(settled)
        /\ stats.correct_predictions =
              Cardinality({i \in settled : h[i].correct = TRUE})

\* C29: in every state the update_accuracy runs of either sport reach, each
\* ledger has 0 <= correct_predictions <= total_predictions, with
\* total_predictions the number of history entries that have an actual
\* winner and correct_predictions the number of those flagged correct.
C29_LedgerConsistent ==
    /\ LedgerConsistent(nba_stats)
    /\ LedgerConsistent(nfl_stats)

\* A football ledger after update_accuracy settled two entries, one of them
\* predicted right and one wrong.
C29_Witness ==
    /\ program = "nfl_daily_predictor"
    /\ nfl_stats.total_predictions = 2
    /\ nfl_stats.correct_predictions = 1
    /\ \E i, j \in 1..Len(nfl_stats.predictions_history) :
          /\ nfl_stats.predictions_history[i].actual # Null
          /\ nfl_stats.predictions_history[j].actual # Null
          /\ nfl_stats.predictions_history[i].correct = TRUE
          /\ nfl_stats.predictions_history[j].correct = FALSE

\* C30: after every run of generate_todays_predictions that found a game the
\* basketball store holds only predictions dated today or yesterday, the
\* most recent date first; a run that found no game leaves the store as it
\* was.
C30_StoreRetention ==
    [][lastOp' = "generate_todays_predictions" =>
          IF lastBatch'.games # {}
          THEN /\ \A i \in 1..Len(nba_predictions') :
                     nba_predictions'[i].date \in {today', today' - 1}
               /\ \A i, j \in 1..Len(nba_predictions') :
                     i < j => nba_predictions'[i].date >= nba_predictions'[j].date
          ELSE nba_predictions' = nba_predictions]_vars

\* A run on day 3 that found a game, two days after the first predictions
\* were stored: the store lists day 3 before day 2 and nothing of day 1.
C30_Witness ==
    /\ lastOp = "generate_todays_predictions"
    /\ today = 3
    /\ lastBatch.games # {}
    /\ Len(nba_predictions) >= 2
    /\ nba_predictions[1].date = 3
    /\ nba_predictions[Len(nba_predictions)].date = 2
    /\ \E k \in DOMAIN counted : k[1] = 1 /\ counted[k] = 0

====
